---- MODULE Spec2Model ----
(***************************************************************************)
(* Runtime pipeline of kubesentinel: Monitor (stream ingestion, metrics    *)
(* reporter, Start/Stop), EventProcessor (worker pool over EventChan) and  *)
(* FeatureExtractor (actor-frequency table under an RWMutex).              *)
(*                                                                         *)
(* Every goroutine is a process with a program counter; one action is one  *)
(* step between two points where the goroutine touches shared state (the   *)
(* channel, the context, an atomic counter, the mutex).  Variables whose   *)
(* name starts with g are history variables: the code does not hold them,  *)
(* they record what happened so that the properties can speak about it.    *)
(*                                                                         *)
(* Spec and FairSpec are the whole pipeline.  SeqSpec is a caller that     *)
(* calls processEvent (and getAIRiskScore) directly, one call after the    *)
(* other; IngestSpec is the ingestion loop under every filter, its lines   *)
(* kept; ScenarioSpec is the pipeline with one worker on three given       *)
(* events; FaultSpec is ScenarioSpec with a store that can fail.           *)
(* VaultSpec is a caller of the forensic Vault (StoreRecord, GetRecord,    *)
(* ListRecords, ShouldRetain) over a storage directory and a clock;        *)
(* SweepSpec is the Vault filled, left to age and swept by                 *)
(* CleanupOldRecords; LockSpec is four concurrent callers of one Vault,    *)
(* each operation in its steps under Vault.mu; PathSpec is isSensitiveFile *)
(* and Extract called on one path; MetricsSpec is Spec with the ticker of  *)
(* the reporter firing and GetMetrics loading the counters one by one;     *)
(* StopTwiceSpec is Spec with a second call of Stop; RunSpec is FairSpec   *)
(* without a call of Stop.                                                 *)
(***************************************************************************)
EXTENDS Integers, Sequences, FiniteSets, TLC

\* ------------------------------------------------------------------ bounds

\* MonitorConfig.BufferSize: capacity of EventChan (10000 by default).
BufferSize == 1

\* MonitorConfig.Workers: number of worker goroutines (4 by default).
Workers == 2

\* Number of lines the stream delivers before it goes quiet.
MaxLines == 2

\* ------------------------------------------------------------ configuration

\* MonitorConfig.Namespace: the namespace filter ("" means no filter).
ConfigNamespace == "prod"

\* MonitorConfig.Deployment: the deployment filter, a string as the sequence
\* of its characters (<< >> is "", no filter).
ConfigDeployment == << >>

\* NewMonitor's argument as the CLI builds it: the configuration of Spec.
DefaultConfig ==
    [ BufferSize |-> BufferSize, Workers |-> Workers,
      Namespace |-> ConfigNamespace, Deployment |-> ConfigDeployment ]

WorkerIds == 0 .. (Workers - 1)

\* No worker: an id outside WorkerIds.
NoWorker == Workers

\* The path "/etc/shadow".
EtcShadow == << "/", "e", "t", "c", "/", "s", "h", "a", "d", "o", "w" >>

\* An output_fields map with no entry.  Fields maps a key to its value when
\* that value is a string (the only values the pipeline reads).
NoFields == [key \in {} |-> ""]

\* SecurityEvent (the fields the pipeline reads), here an event with no
\* output_fields.  Strings the code searches are sequences of characters.  ts is
\* Timestamp; cid, ns and pod are Container.ID, .Namespace and .PodName; prio
\* and rule are Priority and Rule.  bad marks a line that json.Unmarshal
\* rejects.
Benign ==
    [ bad |-> FALSE, ts |-> [date |-> "2026-01-02", hour |-> 15, minute |-> 4],
      cid |-> "c1", ns |-> "prod", pod |-> << "w", "e", "b" >>,
      prio |-> "Notice", rule |-> "Read file", Fields |-> NoFields ]

\* value, ok := event.Fields[key].(string): ok.
HasString(event, key) == key \in DOMAIN event.Fields

\* value, ok := event.Fields[key].(string): value, "" when not ok.
String(event, key) == IF HasString(event, key) THEN event.Fields[key] ELSE ""

\* A line of the stream that json.Unmarshal rejects.
BadLine == [Benign EXCEPT !.bad = TRUE]

\* The events of the stream of Spec.
EventKinds ==
    { [Benign EXCEPT !.Fields = ("proc.name" :> "nc") @@ ("fd.name" :> EtcShadow)
                                  @@ ("fd.sip" :> "10.0.0.1")],
      [Benign EXCEPT !.prio = "Critical", !.Fields = ("proc.name" :> "nc")],
      Benign,
      [Benign EXCEPT !.ns = "other", !.Fields = ("proc.name" :> "nc")] }

LineKinds == EventKinds \cup {BadLine}

\* The actors the events of a set name.
Actors(events) == {e.Fields["proc.name"] : e \in {k \in events : HasString(k, "proc.name")}}

Procs == Actors(EventKinds)

LineIds == 1 .. MaxLines

NoEvent == [id |-> 0]

VARIABLES
    Config,           \* Monitor.Config
    cpc,              \* controller: "new", "running", "waiting", "stopped"
    cancelled,        \* m.ctx is done (m.cancel was called)
    EventChan,        \* buffer of the channel, oldest first
    closed,           \* the channel was closed
    ipc,              \* consumeFalcoEvents: "idle", "dial", "select", "scan", "exited"
    iret,             \* what consumeFalcoEvents returned: "none", "nil", "error"
    mpc,              \* collectMetrics: "idle", "wait", "exited"
    sent,             \* number of lines scanner.Scan has returned so far
    wpc,              \* worker pc, per worker
    wev,              \* the event a worker holds
    wtmp,             \* the value a worker read inside processFrequency[proc]++
    Metrics,          \* ProcessorMetrics
    processFrequency, \* FeatureExtractor.processFrequency
    mu,               \* FeatureExtractor.mu: the worker holding the write lock
    gOffered,         \* ids of the events that passed the filter
    gDropped,         \* ids of the events dropped at the full channel
    gDeq,             \* id -> number of times a worker received the event
    gCounted,         \* id -> number of TotalEvents increments made for it
    gIncs,            \* proc -> number of completed updateProcessFrequency calls
    gRecorded,        \* id -> <<table value after own increment, ProcessFrequency recorded>>
    gLines,           \* the lines scanner.Scan returned, in order (kept by the
                      \* specifications that follow the stream line by line)
    gStore,           \* storeForensicData calls: how many returned nil, how many an error
    call,             \* direct calls of processEvent on the processor (SeqSpec),
                      \* of the Vault's operations (VaultSpec)
    files,            \* the Vault's storage directory: file name -> file
    clock,            \* the wall clock, in ticks
    vmu,              \* Vault.mu: the caller holding the write lock, the callers
                      \* holding a read lock
    vpc,              \* position and locals of each concurrent caller of the Vault
    snapshot          \* the ProcessorMetrics value GetMetrics is filling for the
                      \* metrics reporter

vars == << Config, cpc, cancelled, EventChan, closed, ipc, iret, mpc, sent, wpc,
           wev, wtmp, Metrics, processFrequency, mu, gOffered, gDropped, gDeq,
           gCounted, gIncs, gRecorded, gLines, gStore, call, files, clock,
           vmu, vpc, snapshot >>

\* ------------------------------------------------------------ construction

\* NewEventProcessor / NewFeatureExtractor / NewMonitor(config), for a stream
\* whose lines are numbered by ids and name the actors procs.
NewMonitor(config, ids, procs) ==
    /\ Config = config
    /\ cpc = "new"
    /\ cancelled = FALSE
    /\ EventChan = << >>
    /\ closed = FALSE
    /\ ipc = "idle"
    /\ iret = "none"
    /\ mpc = "idle"
    /\ sent = 0
    /\ wpc = [w \in WorkerIds |-> "idle"]
    /\ wev = [w \in WorkerIds |-> NoEvent]
    /\ wtmp = [w \in WorkerIds |-> 0]
    /\ Metrics = [TotalEvents |-> 0, ProcessedEvents |-> 0,
                  AnomaliesDetected |-> 0, ErrorCount |-> 0]
    /\ processFrequency = [p \in procs |-> 0]
    /\ mu = NoWorker
    /\ gOffered = {}
    /\ gDropped = {}
    /\ gDeq = [i \in ids |-> 0]
    /\ gCounted = [i \in ids |-> 0]
    /\ gIncs = [p \in procs |-> 0]
    /\ gRecorded = [i \in ids |-> << 0, 0 >>]
    /\ gLines = << >>
    /\ gStore = [stored |-> 0, failed |-> 0]
    /\ snapshot = [TotalEvents |-> 0, ProcessedEvents |-> 0,
                   AnomaliesDetected |-> 0, ErrorCount |-> 0]

\* No direct call was made.
NoCall == [n |-> 0]

\* The concurrent callers of the Vault's operations (LockSpec).
VaultCallers == {"store", "sweep", "get", "list"}

\* Nobody holds Vault.mu, no call is under way.
VaultIdle ==
    /\ vmu = [writer |-> "none", readers |-> {}]
    /\ vpc = [p \in VaultCallers |-> [pc |-> "idle"]]

\* No Vault was created: no storage directory, the clock is not read.
NoVault == files = << >> /\ clock = 0 /\ VaultIdle

Init == NewMonitor(DefaultConfig, LineIds, Procs) /\ call = NoCall /\ NoVault

\* ---------------------------------------------------------------- Monitor

\* Monitor.Start: Processor.Start spawns Config.Workers workers, then the ingestion and
\* the metrics goroutines are spawned (m.wg counts these two only).
Start ==
    /\ cpc = "new"
    /\ cpc' = "running"
    /\ wpc' = [w \in WorkerIds |-> IF w < Config.Workers THEN "select" ELSE "idle"]
    /\ ipc' = "dial"
    /\ mpc' = "wait"
    /\ UNCHANGED << cancelled, EventChan, closed, iret, sent, wev, wtmp, Metrics,
                    processFrequency, mu, gOffered, gDropped, gDeq, gCounted,
                    gIncs, gRecorded >>
    /\ UNCHANGED << Config, gLines, gStore, call, files, clock,
                    vmu, vpc, snapshot >>

\* min
min(a, b) == IF a < b THEN a ELSE b

\* contains (the helper of this package): s and substr are strings given as
\* sequences of characters.
RECURSIVE contains(_, _)
contains(s, substr) ==
    /\ Len(s) >= Len(substr)
    /\ \/ s = substr
       \/ /\ Len(s) > 0
          /\ Len(substr) > 0
          /\ \/ SubSeq(s, 1, min(Len(s), Len(substr)))
                    = SubSeq(substr, 1, min(Len(s), Len(substr)))
             \/ contains(Tail(s), substr)

\* Mutant of parseEvent: the decoding error is not reported.
parseEvent_AcceptsAll(line) == [ok |-> TRUE, event |-> line]

\* Monitor.parseEvent: json.Unmarshal fails on a malformed line.
parseEvent(line) == IF line.bad THEN [ok |-> FALSE] ELSE [ok |-> TRUE, event |-> line]

\* Mutant of shouldProcessEvent: the namespace filter is not applied.
shouldProcessEvent_IgnoresNamespace(event) ==
    Config.Deployment = << >>
    \/ (event.pod # << >> /\ contains(event.pod, Config.Deployment))

\* Monitor.shouldProcessEvent
shouldProcessEvent(event) ==
    IF Config.Namespace # "" /\ event.ns # Config.Namespace
    THEN FALSE
    ELSE IF Config.Deployment # << >>
            /\ (event.pod = << >> \/ ~contains(event.pod, Config.Deployment))
         THEN FALSE
         ELSE TRUE

\* Mutant of CanSend: the capacity test is off by one.
CanSend_OffByOne(ch) == Len(ch) <= Config.BufferSize

\* The non-blocking send of consumeFalcoEvents: the send case of the select can
\* proceed when the buffer has room, otherwise the default case runs.
CanSend(ch) == Len(ch) < Config.BufferSize

\* consumeFalcoEvents, net.Dial: on failure the function returns the error.
IngestDial ==
    /\ ipc = "dial"
    /\ \E ok \in BOOLEAN :
          IF ok THEN ipc' = "select" /\ iret' = iret
                ELSE ipc' = "exited" /\ iret' = "error"
    /\ UNCHANGED << cpc, cancelled, EventChan, closed, mpc, sent, wpc, wev, wtmp,
                    Metrics, processFrequency, mu, gOffered, gDropped, gDeq,
                    gCounted, gIncs, gRecorded >>
    /\ UNCHANGED << Config, gLines, gStore, call, files, clock,
                    vmu, vpc, snapshot >>

\* consumeFalcoEvents, the outer select: return nil when the context is done,
\* otherwise take the default case and call scanner.Scan.
IngestSelect ==
    /\ ipc = "select"
    /\ IF cancelled THEN ipc' = "exited" /\ iret' = "nil"
                    ELSE ipc' = "scan" /\ iret' = iret
    /\ UNCHANGED << cpc, cancelled, EventChan, closed, mpc, sent, wpc, wev, wtmp,
                    Metrics, processFrequency, mu, gOffered, gDropped, gDeq,
                    gCounted, gIncs, gRecorded >>
    /\ UNCHANGED << Config, gLines, gStore, call, files, clock,
                    vmu, vpc, snapshot >>

\* consumeFalcoEvents, scanner.Scan returns the line (the call blocks until the
\* stream delivers one): parse, filter, and send without blocking.
IngestLineOf(line) ==
    /\ ipc = "scan"
    /\ sent' = sent + 1
    /\ LET id == sent + 1
           parsed == parseEvent(line)
       IN IF ~parsed.ok \/ ~shouldProcessEvent(parsed.event)
          THEN /\ ipc' = "select"
               /\ UNCHANGED << EventChan, gOffered, gDropped >>
          ELSE IF closed
          THEN /\ ipc' = "panic"
               /\ UNCHANGED << EventChan, gOffered, gDropped >>
          ELSE /\ ipc' = "select"
               /\ gOffered' = gOffered \cup {id}
               /\ IF CanSend(EventChan)
                  THEN /\ EventChan' = Append(EventChan, [id |-> id, event |-> parsed.event])
                       /\ gDropped' = gDropped
                  ELSE /\ EventChan' = EventChan
                       /\ gDropped' = gDropped \cup {id}
    /\ UNCHANGED << cpc, cancelled, closed, iret, mpc, wpc, wev, wtmp, Metrics,
                    processFrequency, mu, gDeq, gCounted, gIncs, gRecorded >>
    /\ UNCHANGED << Config, gStore, call, files, clock,
                    vmu, vpc, snapshot >>

\* The stream of Spec delivers up to MaxLines lines, each any of LineKinds.
IngestLine ==
    /\ sent < MaxLines
    /\ \E line \in LineKinds : IngestLineOf(line)
    /\ UNCHANGED gLines

\* consumeFalcoEvents, scanner.Scan returns false: nil at end-of-input, the
\* scanner's error otherwise.
IngestEnd ==
    /\ ipc = "scan"
    /\ ipc' = "exited"
    /\ \E err \in BOOLEAN : iret' = IF err THEN "error" ELSE "nil"
    /\ UNCHANGED << cpc, cancelled, EventChan, closed, mpc, sent, wpc, wev, wtmp,
                    Metrics, processFrequency, mu, gOffered, gDropped, gDeq,
                    gCounted, gIncs, gRecorded >>
    /\ UNCHANGED << Config, gLines, gStore, call, files, clock,
                    vmu, vpc, snapshot >>

\* Monitor.collectMetrics, the ctx.Done case of its select.  (The ticker case
\* reads the counters and prints them; it writes nothing.)
MetricsDone ==
    /\ mpc = "wait"
    /\ cancelled
    /\ mpc' = "exited"
    /\ UNCHANGED << cpc, cancelled, EventChan, closed, ipc, iret, sent, wpc, wev,
                    wtmp, Metrics, processFrequency, mu, gOffered, gDropped,
                    gDeq, gCounted, gIncs, gRecorded >>
    /\ UNCHANGED << Config, gLines, gStore, call, files, clock,
                    vmu, vpc, snapshot >>

\* Monitor.Stop, m.cancel().
StopCancel ==
    /\ cpc = "running"
    /\ cancelled' = TRUE
    /\ cpc' = "waiting"
    /\ UNCHANGED << EventChan, closed, ipc, iret, mpc, sent, wpc, wev, wtmp,
                    Metrics, processFrequency, mu, gOffered, gDropped, gDeq,
                    gCounted, gIncs, gRecorded >>
    /\ UNCHANGED << Config, gLines, gStore, call, files, clock,
                    vmu, vpc, snapshot >>

\* Mutant of WaitGroupZero: m.wg counts the metrics goroutine only.
WaitGroupZero_MetricsOnly == mpc = "exited"

\* m.wg counts the ingestion goroutine and the metrics goroutine (Start); the
\* workers are counted by a WaitGroup local to EventProcessor.Start.
WaitGroupZero == ipc \in {"exited", "panic"} /\ mpc = "exited"

\* Monitor.Stop, m.wg.Wait() returns and close(m.EventChan) runs.
StopClose ==
    /\ cpc = "waiting"
    /\ WaitGroupZero
    /\ closed' = TRUE
    /\ cpc' = "stopped"
    /\ UNCHANGED << cancelled, EventChan, ipc, iret, mpc, sent, wpc, wev, wtmp,
                    Metrics, processFrequency, mu, gOffered, gDropped, gDeq,
                    gCounted, gIncs, gRecorded >>
    /\ UNCHANGED << Config, gLines, gStore, call, files, clock,
                    vmu, vpc, snapshot >>

\* --------------------------------------------------------- EventProcessor

\* EventProcessor.worker, the ctx.Done case of the select.  When several cases
\* of a select can proceed, Go takes one of them at random: this case and the
\* receive case are both enabled when the context is done and events wait.
WorkerStop(w) ==
    /\ wpc[w] = "select"
    /\ cancelled
    /\ wpc' = [wpc EXCEPT ![w] = "exited"]
    /\ UNCHANGED << cpc, cancelled, EventChan, closed, ipc, iret, mpc, sent, wev,
                    wtmp, Metrics, processFrequency, mu, gOffered, gDropped,
                    gDeq, gCounted, gIncs, gRecorded >>
    /\ UNCHANGED << Config, gLines, gStore, call, files, clock,
                    vmu, vpc, snapshot >>

\* Mutant of Receive: the received event stays in the channel.
Receive_KeepHead(ch) == [event |-> Head(ch), rest |-> ch]

\* A receive from the channel takes the oldest event out of the buffer.
Receive(ch) == [event |-> Head(ch), rest |-> Tail(ch)]

\* Mutant of CanReceive: the receive case never proceeds.
CanReceive_Never(ch) == FALSE

\* The receive case of the worker's select can proceed with ok = true when the
\* buffer holds an event.
CanReceive(ch) == ch # << >>

\* EventProcessor.worker, the receive case with ok = true.
WorkerReceive(w) ==
    /\ wpc[w] = "select"
    /\ CanReceive(EventChan)
    /\ wev' = [wev EXCEPT ![w] = Receive(EventChan).event]
    /\ EventChan' = Receive(EventChan).rest
    /\ wpc' = [wpc EXCEPT ![w] = "count"]
    /\ gDeq' = [gDeq EXCEPT ![Head(EventChan).id] = @ + 1]
    /\ UNCHANGED << cpc, cancelled, closed, ipc, iret, mpc, sent, wtmp, Metrics,
                    processFrequency, mu, gOffered, gDropped, gCounted, gIncs,
                    gRecorded >>
    /\ UNCHANGED << Config, gLines, gStore, call, files, clock,
                    vmu, vpc, snapshot >>

\* Mutant of ReceiveClosed: the receive reports ok = true and an event.
ReceiveClosed_Ok == [ok |-> TRUE, event |-> [id |-> 1, event |-> Benign]]

\* event, ok := <-eventChan on a closed, empty channel: the zero value and
\* ok = false.
ReceiveClosed == [ok |-> FALSE, event |-> [id |-> 0, ok |-> FALSE]]

\* EventProcessor.worker, the receive case on a closed, empty channel: the
\* worker prints "channel closed" and returns when ok is false.
WorkerChannelClosed(w) ==
    /\ wpc[w] = "select"
    /\ closed
    /\ EventChan = << >>
    /\ wev' = [wev EXCEPT ![w] = ReceiveClosed.event]
    /\ wpc' = [wpc EXCEPT ![w] = IF ReceiveClosed.ok THEN "count" ELSE "exited"]
    /\ UNCHANGED << cpc, cancelled, EventChan, closed, ipc, iret, mpc, sent,
                    wtmp, Metrics, processFrequency, mu, gOffered, gDropped,
                    gDeq, gCounted, gIncs, gRecorded >>
    /\ UNCHANGED << Config, gLines, gStore, call, files, clock,
                    vmu, vpc, snapshot >>

\* EventProcessor.worker, atomic.AddInt64(&ep.Metrics.TotalEvents, 1); then
\* processEvent calls Extract, which touches the table only when proc.name is
\* a string.
WorkerCount(w) ==
    /\ wpc[w] = "count"
    /\ Metrics' = [Metrics EXCEPT !.TotalEvents = @ + 1]
    /\ gCounted' = [gCounted EXCEPT ![wev[w].id] = @ + 1]
    /\ wpc' = [wpc EXCEPT ![w] = IF HasString(wev[w].event, "proc.name") THEN "lock" ELSE "finish"]
    /\ UNCHANGED << cpc, cancelled, EventChan, closed, ipc, iret, mpc, sent, wev,
                    wtmp, processFrequency, mu, gOffered, gDropped, gDeq, gIncs,
                    gRecorded >>
    /\ UNCHANGED << Config, gLines, gStore, call, files, clock,
                    vmu, vpc, snapshot >>

\* Mutant of CanLock: Lock excludes nobody.
CanLock_NoExclusion(m) == TRUE

\* sync.RWMutex: Lock proceeds when nobody holds the lock.  (The read sections
\* of this model are single steps, so only the writer is kept.)
CanLock(m) == m = NoWorker

\* sync.RWMutex: RLock proceeds when no writer holds the lock.
CanRLock(m) == m = NoWorker

\* FeatureExtractor.updateProcessFrequency, fe.mu.Lock() and the read half of
\* fe.processFrequency[proc]++.
WorkerLock(w) ==
    /\ wpc[w] = "lock"
    /\ CanLock(mu)
    /\ mu' = w
    /\ wtmp' = [wtmp EXCEPT ![w] = processFrequency[wev[w].event.Fields["proc.name"]]]
    /\ wpc' = [wpc EXCEPT ![w] = "write"]
    /\ UNCHANGED << cpc, cancelled, EventChan, closed, ipc, iret, mpc, sent, wev,
                    Metrics, processFrequency, gOffered, gDropped, gDeq,
                    gCounted, gIncs, gRecorded >>
    /\ UNCHANGED << Config, gLines, gStore, call, files, clock,
                    vmu, vpc, snapshot >>

\* FeatureExtractor.updateProcessFrequency, the write half of
\* fe.processFrequency[proc]++ and the deferred fe.mu.Unlock().
WorkerWrite(w) ==
    /\ wpc[w] = "write"
    /\ LET proc == wev[w].event.Fields["proc.name"]
       IN /\ processFrequency' = [processFrequency EXCEPT ![proc] = wtmp[w] + 1]
          /\ gIncs' = [gIncs EXCEPT ![proc] = @ + 1]
          /\ gRecorded' = [gRecorded EXCEPT ![wev[w].id] = << wtmp[w] + 1, 0 >>]
    /\ mu' = NoWorker
    /\ wtmp' = [wtmp EXCEPT ![w] = 0]
    /\ wpc' = [wpc EXCEPT ![w] = "get"]
    /\ UNCHANGED << cpc, cancelled, EventChan, closed, ipc, iret, mpc, sent, wev,
                    Metrics, gOffered, gDropped, gDeq, gCounted >>
    /\ UNCHANGED << Config, gLines, gStore, call, files, clock,
                    vmu, vpc, snapshot >>

\* FeatureExtractor.getProcessFrequency: RLock, read, RUnlock; Extract stores
\* the value in features.ProcessFrequency.
WorkerGet(w) ==
    /\ wpc[w] = "get"
    /\ CanRLock(mu)
    /\ gRecorded' = [gRecorded EXCEPT ![wev[w].id] =
                        << @[1], processFrequency[wev[w].event.Fields["proc.name"]] >>]
    /\ wpc' = [wpc EXCEPT ![w] = "finish"]
    /\ UNCHANGED << cpc, cancelled, EventChan, closed, ipc, iret, mpc, sent, wev,
                    wtmp, Metrics, processFrequency, mu, gOffered, gDropped,
                    gDeq, gCounted, gIncs >>
    /\ UNCHANGED << Config, gLines, gStore, call, files, clock,
                    vmu, vpc, snapshot >>

\* EventProcessor.isKnownThreat
knownThreats ==
    { "Terminal shell in container", "Modify binary dirs", "Write below etc",
      "Sensitive file opened for reading", "Netcat Remote Code Execution",
      "Launch Suspicious Network Tool" }

\* Mutant of isKnownThreat: the priority "Emergency" is not a trigger.
isKnownThreat_NoEmergency(event) ==
    \/ event.prio = "Critical"
    \/ event.rule \in knownThreats

isKnownThreat(event) ==
    \/ event.prio = "Critical"
    \/ event.prio = "Emergency"
    \/ event.rule \in knownThreats

\* isSensitiveFile
sensitivePatterns ==
    { << "/", "e", "t", "c", "/", "p", "a", "s", "s", "w", "d" >>,
      << "/", "e", "t", "c", "/", "s", "h", "a", "d", "o", "w" >>,
      << "/", "e", "t", "c", "/", "s", "s", "h" >>,
      << "/", "r", "o", "o", "t", "/", ".", "s", "s", "h" >>,
      << ".", "k", "u", "b", "e", "/", "c", "o", "n", "f", "i", "g" >>,
      << "t", "o", "k", "e", "n" >>,
      << "s", "e", "c", "r", "e", "t" >>,
      << "c", "r", "e", "d", "e", "n", "t", "i", "a", "l" >>,
      << ".", "a", "w", "s", "/", "c", "r", "e", "d", "e", "n", "t", "i", "a", "l", "s" >> }

\* Mutant of isSensitiveFile: a pattern counts only at the start of the path.
isSensitiveFile_Prefix(path) ==
    \E pattern \in sensitivePatterns :
        Len(path) >= Len(pattern) /\ SubSeq(path, 1, Len(pattern)) = pattern

isSensitiveFile(path) == \E pattern \in sensitivePatterns : contains(path, pattern)

\* Mutant of updateProcessFrequency: the increment is lost.
updateProcessFrequency_NoWrite(table, proc) == table

\* Mutant of updateProcessFrequency: every actor's count is incremented.
updateProcessFrequency_All(table, proc) == [p \in DOMAIN table |-> table[p] + 1]

\* FeatureExtractor.updateProcessFrequency, as one step.
updateProcessFrequency(table, proc) == [table EXCEPT ![proc] = @ + 1]

\* FeatureExtractor.getProcessFrequency
getProcessFrequency(table, proc) == table[proc]

\* getTimeWindow: the layout "2006-01-02-15" keeps the date and the hour.
getTimeWindow(t) == [date |-> t.date, hour |-> t.hour]

\* FeatureExtractor.Extract, given the value frequency that
\* getProcessFrequency returned (read only when proc.name is a string).
Extract(event, frequency) ==
    [ ProcessName |-> String(event, "proc.name"),
      ProcessFrequency |-> IF HasString(event, "proc.name") THEN frequency ELSE 0,
      SyscallCount |-> << >>,
      FileAccessCount |-> IF HasString(event, "fd.name") THEN 1 ELSE 0,
      NetworkConnCount |-> IF HasString(event, "fd.sip") THEN 1 ELSE 0,
      SensitiveFiles |-> IF HasString(event, "fd.name")
                            /\ isSensitiveFile(event.Fields["fd.name"])
                         THEN << event.Fields["fd.name"] >> ELSE << >>,
      CommandLine |-> String(event, "proc.cmdline"),
      ParentProcess |-> String(event, "proc.pname"),
      UserID |-> String(event, "user.uid"),
      TimeWindow |-> getTimeWindow(event.ts),
      ContainerID |-> event.cid,
      Namespace |-> event.ns ]

suspiciousProcesses == { "nc", "ncat", "netcat", "wget", "curl" }

\* Mutant of getAIRiskScore: a sensitive file weighs 0.4.
getAIRiskScore_HeavyFile(features) ==
      (IF Len(features.SensitiveFiles) > 0 THEN 40 ELSE 0)
    + (IF features.NetworkConnCount > 10 THEN 20 ELSE 0)
    + (IF features.FileAccessCount > 50 THEN 20 ELSE 0)
    + (IF features.ProcessName \in suspiciousProcesses THEN 40 ELSE 0)

\* Mutant of getAIRiskScore: a suspicious process weighs 0.8.
getAIRiskScore_HeavyProcess(features) ==
      (IF Len(features.SensitiveFiles) > 0 THEN 30 ELSE 0)
    + (IF features.NetworkConnCount > 10 THEN 20 ELSE 0)
    + (IF features.FileAccessCount > 50 THEN 20 ELSE 0)
    + (IF features.ProcessName \in suspiciousProcesses THEN 80 ELSE 0)

\* Mutant of getAIRiskScore: the sum is cut at 1.0.
getAIRiskScore_Capped(features) ==
    min(100,
          (IF Len(features.SensitiveFiles) > 0 THEN 30 ELSE 0)
        + (IF features.NetworkConnCount > 10 THEN 20 ELSE 0)
        + (IF features.FileAccessCount > 50 THEN 20 ELSE 0)
        + (IF features.ProcessName \in suspiciousProcesses THEN 40 ELSE 0))

\* Mutant of getAIRiskScore: any network connection and any file access count.
getAIRiskScore_AnyCount(features) ==
      (IF Len(features.SensitiveFiles) > 0 THEN 30 ELSE 0)
    + (IF features.NetworkConnCount > 0 THEN 20 ELSE 0)
    + (IF features.FileAccessCount > 0 THEN 20 ELSE 0)
    + (IF features.ProcessName \in suspiciousProcesses THEN 40 ELSE 0)

\* Mutant of getAIRiskScore: an actor seen before scores higher.
getAIRiskScore_Frequency(features) ==
      (IF Len(features.SensitiveFiles) > 0 THEN 30 ELSE 0)
    + (IF features.NetworkConnCount > 10 THEN 20 ELSE 0)
    + (IF features.FileAccessCount > 50 THEN 20 ELSE 0)
    + (IF features.ProcessName \in suspiciousProcesses THEN 40 ELSE 0)
    + (IF features.ProcessFrequency > 1 THEN 20 ELSE 0)

\* EventProcessor.getAIRiskScore, in hundredths.
getAIRiskScore(features) ==
      (IF Len(features.SensitiveFiles) > 0 THEN 30 ELSE 0)
    + (IF features.NetworkConnCount > 10 THEN 20 ELSE 0)
    + (IF features.FileAccessCount > 50 THEN 20 ELSE 0)
    + (IF features.ProcessName \in suspiciousProcesses THEN 40 ELSE 0)

\* EventProcessor.storeForensicData: logs the anomaly and returns nil.
storeForensicData(processed) == "nil"

\* EventProcessor.processEvent after Extract returned features, at wall-clock
\* time now: the verdict (RiskScore in hundredths), the number of
\* AnomaliesDetected increments, and the error.  fault is "none" except in
\* FaultSpec, where it is the error the store is made to return.
processEvent(event, features, now, fault) ==
    LET known == isKnownThreat(event)
        aiScore == getAIRiskScore(features)
        ruleScore == IF known THEN 95 ELSE 0
        processed == [ Original |-> event,
                       Features |-> features,
                       Timestamp |-> now,
                       RiskScore |-> IF aiScore > ruleScore THEN aiScore ELSE ruleScore,
                       Anomaly |-> known \/ aiScore > 75 ]
        stored == IF fault = "none" THEN storeForensicData(processed) ELSE fault
    IN [ processed |-> processed,
         anomalies |-> (IF known THEN 1 ELSE 0) + (IF aiScore > 75 THEN 1 ELSE 0),
         storeCalled |-> processed.Anomaly,
         err |-> processed.Anomaly /\ stored # "nil" ]

\* processEvent on every event of Spec and every frequency Extract can record
\* (computed once; the verdict's Timestamp is read by no step, so one reading
\* of the clock stands for all).
Verdicts ==
    [ event \in EventKinds |->
        [ frequency \in 0 .. MaxLines |->
            processEvent(event, Extract(event, frequency), 0, "none") ] ]

\* Mutant of CountOutcome: a processed event is counted twice.
CountOutcome_Twice(m, err) ==
    IF err THEN [m EXCEPT !.ErrorCount = @ + 1]
           ELSE [m EXCEPT !.ProcessedEvents = @ + 2]

\* Mutant of CountOutcome: the continue is missing, a failed event is also
\* counted as processed.
CountOutcome_NoContinue(m, err) ==
    IF err THEN [m EXCEPT !.ErrorCount = @ + 1, !.ProcessedEvents = @ + 1]
           ELSE [m EXCEPT !.ProcessedEvents = @ + 1]

\* EventProcessor.worker after processEvent returned: ErrorCount and continue
\* on an error, ProcessedEvents otherwise.
CountOutcome(m, err) ==
    IF err THEN [m EXCEPT !.ErrorCount = @ + 1]
           ELSE [m EXCEPT !.ProcessedEvents = @ + 1]

\* EventProcessor.processEvent after Extract returned res (the rule-based
\* detection, the score, the store) and the worker's counter for its outcome:
\* ErrorCount on an error, ProcessedEvents otherwise; then the next iteration
\* of the loop.
WorkerFinishOn(w, res) ==
    /\ wpc[w] = "finish"
    /\ Metrics' = CountOutcome(
                     [Metrics EXCEPT !.AnomaliesDetected = @ + res.anomalies],
                     res.err)
    /\ gStore' = IF ~res.storeCalled THEN gStore
                 ELSE IF res.err THEN [gStore EXCEPT !.failed = @ + 1]
                 ELSE [gStore EXCEPT !.stored = @ + 1]
    /\ wev' = [wev EXCEPT ![w] = NoEvent]
    /\ wpc' = [wpc EXCEPT ![w] = "select"]
    /\ UNCHANGED << cpc, cancelled, EventChan, closed, ipc, iret, mpc, sent, wtmp,
                    processFrequency, mu, gOffered, gDropped, gDeq, gCounted,
                    gIncs, gRecorded >>
    /\ UNCHANGED << Config, gLines, call, files, clock,
                    vmu, vpc, snapshot >>

\* The rest of processEvent in Spec.
WorkerFinish(w) ==
    /\ wpc[w] = "finish"
    /\ WorkerFinishOn(w, Verdicts[wev[w].event][gRecorded[wev[w].id][2]])

Next ==
    \/ Start
    \/ StopCancel
    \/ StopClose
    \/ IngestDial
    \/ IngestSelect
    \/ IngestLine
    \/ IngestEnd
    \/ MetricsDone
    \/ \E w \in WorkerIds :
          \/ WorkerStop(w)
          \/ WorkerReceive(w)
          \/ WorkerChannelClosed(w)
          \/ WorkerCount(w)
          \/ WorkerLock(w)
          \/ WorkerWrite(w)
          \/ WorkerGet(w)
          \/ WorkerFinish(w)

Spec == Init /\ [][Next]_vars

\* Every goroutine that can take a step eventually takes it.  What the stream
\* does (IngestLine, IngestEnd: scanner.Scan returns only when the stream
\* delivers a line, ends or breaks) and what the controller decides (Start,
\* StopCancel) are not forced.
FairSpec ==
    /\ Spec
    /\ WF_vars(IngestDial)
    /\ WF_vars(IngestSelect)
    /\ WF_vars(MetricsDone)
    /\ WF_vars(StopClose)
    /\ \A w \in WorkerIds :
          /\ WF_vars(WorkerStop(w) \/ WorkerReceive(w) \/ WorkerChannelClosed(w))
          /\ WF_vars(WorkerCount(w))
          /\ WF_vars(WorkerLock(w))
          /\ WF_vars(WorkerWrite(w))
          /\ WF_vars(WorkerGet(w))
          /\ WF_vars(WorkerFinish(w))

\* A Monitor whose controller never calls Stop: the steps of Spec that need no
\* cancellation, each goroutine's steps taken eventually as in FairSpec.
RunNext ==
    \/ Start
    \/ IngestDial
    \/ IngestSelect
    \/ IngestLine
    \/ IngestEnd
    \/ \E w \in WorkerIds :
          \/ WorkerReceive(w)
          \/ WorkerCount(w)
          \/ WorkerLock(w)
          \/ WorkerWrite(w)
          \/ WorkerGet(w)
          \/ WorkerFinish(w)

RunSpec ==
    /\ Init
    /\ [][RunNext]_vars
    /\ WF_vars(IngestDial)
    /\ WF_vars(IngestSelect)
    /\ \A w \in WorkerIds :
          /\ WF_vars(WorkerReceive(w))
          /\ WF_vars(WorkerCount(w))
          /\ WF_vars(WorkerLock(w))
          /\ WF_vars(WorkerWrite(w))
          /\ WF_vars(WorkerGet(w))
          /\ WF_vars(WorkerFinish(w))

\* ------------------------------------------- direct calls of processEvent

\* Number of processEvent calls made on one processor.
MaxCalls == 2

\* Anomaly thresholds a deployment configures, in hundredths (0.75 by default).
Thresholds == {50, 75}

\* ai.NewClient(endpoint, threshold): the holder of the configured threshold.
NewClient(threshold) == [Threshold |-> threshold]

\* The events handed to processEvent: every combination of a priority and a
\* rule, an actor, and file and network fields.
SeqEvents ==
    { [Benign EXCEPT !.prio = t[1], !.rule = t[2], !.Fields = a @@ f] :
        t \in { << "Notice", "Read file" >>, << "Critical", "Read file" >>,
                << "Emergency", "Read file" >>, << "Notice", "Write below etc" >>,
                << "Notice", "write below etc" >> },
        a \in { NoFields,
                ("proc.name" :> "nc") @@ ("proc.cmdline" :> "nc -l") @@ ("user.uid" :> "0"),
                ("proc.name" :> "bash") @@ ("proc.pname" :> "sshd") },
        f \in { NoFields,
                ("fd.name" :> EtcShadow) @@ ("fd.sip" :> "10.0.0.1"),
                ("fd.name" :> << "/", "t", "m", "p", "/", "x" >>) } }

SeqActors == Actors(SeqEvents)

\* Feature records handed to getAIRiskScore alone, with counts on both sides
\* of its limits.
SeqFeatures ==
    { [Extract(Benign, 0) EXCEPT !.ProcessName = p, !.ProcessFrequency = q,
                                 !.SensitiveFiles = sf, !.NetworkConnCount = nc,
                                 !.FileAccessCount = fa] :
        p \in {"", "bash", "nc", "curl"}, q \in {0, 5},
        sf \in { << >>, << EtcShadow >> }, nc \in {0, 10, 11}, fa \in {1, 50, 51} }

\* A processor and a client built by a caller that then calls processEvent
\* itself, one call after the other.
SeqInit ==
    /\ NewMonitor(DefaultConfig, LineIds, SeqActors)
    /\ \E threshold \in Thresholds : call = [n |-> 0, Client |-> NewClient(threshold)]
    /\ NoVault

\* processEvent on every event of SeqEvents, every frequency Extract can
\* record and every reading of the clock (computed once).
SeqVerdicts ==
    [ event \in SeqEvents |->
        [ frequency \in 0 .. MaxCalls |->
            [ now \in 1 .. MaxCalls |->
                processEvent(event, Extract(event, frequency), now, "none") ] ] ]

\* One call of EventProcessor.processEvent, run to completion: Extract (the
\* table update and the read, when proc.name is a string), the detection, the
\* score, the store.  call keeps the last two calls; the wall clock advances
\* with every call.
CallProcessEvent ==
    /\ call.n < MaxCalls
    /\ "scored" \notin DOMAIN call
    /\ \E event \in SeqEvents :
         LET named == HasString(event, "proc.name")
             proc == String(event, "proc.name")
             table == IF named THEN updateProcessFrequency(processFrequency, proc)
                               ELSE processFrequency
             frequency == IF named THEN getProcessFrequency(table, proc) ELSE 0
             res == SeqVerdicts[event][frequency][call.n + 1]
         IN /\ processFrequency' = table
            /\ gIncs' = IF named THEN [gIncs EXCEPT ![proc] = @ + 1] ELSE gIncs
            /\ Metrics' = [Metrics EXCEPT !.AnomaliesDetected = @ + res.anomalies]
            /\ gStore' = IF res.storeCalled THEN [gStore EXCEPT !.stored = @ + 1]
                                            ELSE gStore
            /\ call' = [ n |-> call.n + 1,
                         Client |-> call.Client,
                         prev |-> IF call.n = 0 THEN NoCall ELSE call.last,
                         last |-> [ n |-> call.n + 1, event |-> event,
                                    processed |-> res.processed,
                                    anomalies |-> res.anomalies, err |-> res.err ] ]
    /\ UNCHANGED << Config, cpc, cancelled, EventChan, closed, ipc, iret, mpc, sent,
                    wpc, wev, wtmp, mu, gOffered, gDropped, gDeq, gCounted,
                    gRecorded, gLines, files, clock, vmu, vpc, snapshot >>

\* One call of EventProcessor.getAIRiskScore on a feature record.
CallGetAIRiskScore ==
    /\ call.n = 0
    /\ "scored" \notin DOMAIN call
    /\ \E features \in SeqFeatures :
         call' = [ n |-> 0, Client |-> call.Client,
                   scored |-> [features |-> features, score |-> getAIRiskScore(features)] ]
    /\ UNCHANGED << Config, cpc, cancelled, EventChan, closed, ipc, iret, mpc, sent,
                    wpc, wev, wtmp, Metrics, processFrequency, mu, gOffered,
                    gDropped, gDeq, gCounted, gIncs, gRecorded, gLines, gStore,
                    files, clock, vmu, vpc, snapshot >>

SeqNext == CallProcessEvent \/ CallGetAIRiskScore

SeqSpec == SeqInit /\ [][SeqNext]_vars

\* --------------------------------------------------- the stream, line by line

\* Filters a deployment configures: none, the namespace, the deployment, both.
FilterConfigs ==
    { [DefaultConfig EXCEPT !.Namespace = n, !.Deployment = d] :
        n \in {"", "prod"},
        d \in { << >>, << "w", "e", "b" >>, << "e", "b" >> } }

\* Lines of the stream: the malformed line and events in and out of the
\* namespace whose pod names hold the deployment names at the start, further
\* on, after a false start, or not at all.
FilterLines ==
    { [Benign EXCEPT !.ns = n, !.pod = p] :
        n \in {"prod", "other", ""},
        p \in { << >>, << "w", "e", "b" >>, << "w", "e" >>, << "w", "w", "e", "b", "1" >>,
                << "e", "b" >>, << "b", "e" >> } }
    \cup {BadLine}

IngestInit ==
    /\ \E config \in FilterConfigs : NewMonitor(config, LineIds, Procs)
    /\ call = NoCall /\ NoVault

\* IngestLine on a stream of FilterLines, the line kept in gLines.
IngestLineKept ==
    /\ sent < MaxLines
    /\ \E line \in FilterLines :
          /\ IngestLineOf(line)
          /\ gLines' = Append(gLines, line)

\* The monitor up to the channel: the workers are started and not scheduled.
IngestNext ==
    \/ Start
    \/ StopCancel
    \/ IngestDial
    \/ IngestSelect
    \/ IngestLineKept
    \/ IngestEnd

IngestSpec == IngestInit /\ [][IngestNext]_vars

\* ------------------------------------------------------ end-to-end scenario

\* One event with priority "Critical", one whose fd.name holds "/etc/shadow",
\* one benign event.
ScenarioEvents ==
    { [Benign EXCEPT !.prio = "Critical"],
      [Benign EXCEPT !.Fields = ("proc.name" :> "cat") @@ ("fd.name" :> EtcShadow)],
      [Benign EXCEPT !.Fields = ("proc.name" :> "ls")] }

ScenarioActors == Actors(ScenarioEvents)

ScenarioIds == 1 .. Cardinality(ScenarioEvents)

\* One worker, a queue of ten, no filter.
ScenarioConfig ==
    [ BufferSize |-> 10, Workers |-> 1, Namespace |-> "", Deployment |-> << >> ]

ScenarioInit == NewMonitor(ScenarioConfig, ScenarioIds, ScenarioActors) /\ call = NoCall /\ NoVault

\* The lines scanned so far.
Scanned == {gLines[i] : i \in 1 .. Len(gLines)}

\* IngestLine on the stream of the scenario: its events, each once, in any order.
ScenarioLine ==
    \E line \in ScenarioEvents \ Scanned :
       /\ IngestLineOf(line)
       /\ gLines' = Append(gLines, line)

\* WorkerFinish on the events of the scenario.
ScenarioFinish(w) ==
    /\ wpc[w] = "finish"
    /\ LET event == wev[w].event
       IN WorkerFinishOn(w, processEvent(event, Extract(event, gRecorded[wev[w].id][2]),
                                         0, "none"))

\* The steps every scenario shares with Spec.
ScenarioSteps ==
    \/ Start
    \/ StopCancel
    \/ StopClose
    \/ IngestDial
    \/ IngestSelect
    \/ ScenarioLine
    \/ IngestEnd
    \/ MetricsDone
    \/ \E w \in WorkerIds :
          \/ WorkerStop(w)
          \/ WorkerReceive(w)
          \/ WorkerChannelClosed(w)
          \/ WorkerCount(w)
          \/ WorkerLock(w)
          \/ WorkerWrite(w)
          \/ WorkerGet(w)

ScenarioNext == ScenarioSteps \/ \E w \in WorkerIds : ScenarioFinish(w)

ScenarioSpec == ScenarioInit /\ [][ScenarioNext]_vars

\* -------------------------------------------------------- a failing store

\* The values of storeForensicData's result type.  Its body returns nil only
\* (Spec, ScenarioSpec); FaultSpec makes the call return either, to exercise
\* the branch of the worker that handles an error of processEvent.
StoreOutcomes == {"nil", "error"}

\* WorkerFinish when the store returns outcome.
FaultFinish(w) ==
    /\ wpc[w] = "finish"
    /\ \E outcome \in StoreOutcomes :
         LET event == wev[w].event
         IN WorkerFinishOn(w, processEvent(event, Extract(event, gRecorded[wev[w].id][2]),
                                           0, outcome))

FaultNext == ScenarioSteps \/ \E w \in WorkerIds : FaultFinish(w)

FaultSpec == ScenarioInit /\ [][FaultNext]_vars

\* ------------------------------------------------------------ forensic vault

\* Ticks of the clock in one second: a record's Timestamp is finer than the
\* second its file name keeps.
TicksPerSecond == 2

\* Ticks in one day; the model's day is two seconds long, so that a retention
\* window passes within MaxClock.
TicksPerDay == 2 * TicksPerSecond

\* Number of StoreRecord calls a caller of VaultSpec makes.
MaxStores == 2

\* The clock of SweepSpec stops here.
MaxClock == 7

\* Number of files the storage directory of SweepSpec has room for.
MaxFiles == 2

\* VaultConfig, with a retention window of one day.
VaultConfig ==
    [StoragePath |-> "/forensics", RetentionDays |-> 1, MaxSizeMB |-> 1,
     Compression |-> FALSE]

\* The storage directory NewVault creates (os.MkdirAll on a new path).
EmptyDir == [name \in {} |-> 0]

\* ForensicRecord values callers hand to the policy: every severity tier (and
\* none), risk scores in hundredths around 0.7, every kind of incident type.
\* ID is a string as the sequence of its characters (<< >> is "", unset),
\* Timestamp an instant in ticks (0 is the zero time, unset).
PolicyRecords ==
    { [ID |-> << "a" >>, Timestamp |-> 2, IncidentType |-> incident,
       Severity |-> severity, RiskScore |-> risk] :
        incident \in {"", "false-positive", "malware"},
        severity \in {"critical", "high", "medium", "low", ""},
        risk \in {10, 70, 71, 99} }

\* ForensicRecord values callers store: with and without an id (one id ends
\* with "_" and the other), with and without a timestamp (two instants of
\* one second), two kinds the policy keeps and one it drops.
VaultRecords ==
    { [ID |-> id, Timestamp |-> timestamp, IncidentType |-> kind[3],
       Severity |-> kind[1], RiskScore |-> kind[2]] :
        id \in { << >>, << "a" >>, << "b", "_", "a" >> },
        timestamp \in {0, 2, 3},
        kind \in { << "critical", 10, "" >>, << "low", 99, "" >>,
                   << "low", 10, "malware" >> } }

\* Ids callers look up: the ids they chose, one nobody stored, and the ids
\* generateID can have produced.
LookupIds ==
    { << "a" >>, << "b", "_", "a" >>, << "b" >> }
        \cup { << ToString(n) >> : n \in 1 .. MaxStores }

\* Time ranges callers list: both orders of the bounds around the instants of
\* VaultRecords.
ListRanges == { << 1, 4 >>, << 2, 3 >>, << 1, 3 >>, << 2, 4 >>, << 3, 2 >> }

\* Mutant of ShouldRetain: a medium record is kept from risk 0.7 on.
ShouldRetain_AtLeast(record) ==
    \/ record.Severity \in {"critical", "high"}
    \/ record.Severity = "medium" /\ record.RiskScore >= 70
    \/ record.IncidentType # "" /\ record.IncidentType # "false-positive"

\* RetentionPolicy.ShouldRetain (risk scores in hundredths).
ShouldRetain(record) ==
    IF record.Severity = "critical" \/ record.Severity = "high" THEN TRUE
    ELSE IF record.Severity = "medium" /\ record.RiskScore > 70 THEN TRUE
    ELSE IF record.IncidentType # "" /\ record.IncidentType # "false-positive" THEN TRUE
    ELSE FALSE

\* generateID: the decimal digits of time.Now().UnixNano().
generateID(now) == << ToString(now) >>

\* Timestamp.Format("20060102_150405"): the date, "_", the time of day to the
\* second.  All instants of the model fall on one date.
Format(t) == << "20260102", "_", ToString(t \div TicksPerSecond) >>

\* The file name StoreRecord builds, fmt.Sprintf("%s_%s.json", ...).
FileName(record) == Format(record.Timestamp) \o << "_" >> \o record.ID \o << ".json" >>

\* json.MarshalIndent of a ForensicRecord: an object under the json tags.
Marshal(record) ==
    [ id |-> record.ID, timestamp |-> record.Timestamp,
      incident_type |-> record.IncidentType, severity |-> record.Severity,
      risk_score |-> record.RiskScore ]

\* Content of a file that is not a JSON object.
Garbage == [bytes |-> "}{"]

\* json.Unmarshal into a ForensicRecord.
Unmarshal(data) ==
    IF "id" \in DOMAIN data
    THEN [ ok |-> TRUE,
           record |-> [ ID |-> data.id, Timestamp |-> data.timestamp,
                        IncidentType |-> data.incident_type,
                        Severity |-> data.severity, RiskScore |-> data.risk_score ] ]
    ELSE [ ok |-> FALSE ]

\* ioutil.ReadFile followed by json.Unmarshal.
ReadRecord(file) == IF file.readable THEN Unmarshal(file.data) ELSE [ ok |-> FALSE ]

\* Byte order of the characters of a file name ('.' < digits < '_' < letters);
\* the date is compared with itself only.
Rank(c) ==
    CASE c = ".json" -> 0
      [] c = "20260102" -> 1
      [] c = "_" -> 100
      [] c = "a" -> 101
      [] c = "b" -> 102
      [] OTHER -> 2 + (CHOOSE n \in 0 .. MaxClock + MaxStores + TicksPerDay :
                                ToString(n) = c)

\* Lexical order of two file names.
RECURSIVE LexLess(_, _)
LexLess(a, b) ==
    IF a = << >> THEN b # << >>
    ELSE IF b = << >> THEN FALSE
    ELSE IF Rank(Head(a)) # Rank(Head(b)) THEN Rank(Head(a)) < Rank(Head(b))
    ELSE LexLess(Tail(a), Tail(b))

\* The names of a set in lexical order.
RECURSIVE Sorted(_)
Sorted(names) ==
    IF names = {} THEN << >>
    ELSE LET first == CHOOSE x \in names : \A y \in names \ {x} : LexLess(x, y)
         IN << first >> \o Sorted(names \ {first})

\* name ends with suffix.
HasSuffix(name, suffix) ==
    /\ Len(name) >= Len(suffix)
    /\ SubSeq(name, Len(name) - Len(suffix) + 1, Len(name)) = suffix

\* filepath.Glob on StoragePath with the pattern "*" followed by suffix: the
\* matching names, sorted ("*" matches any run of characters; the suffixes of
\* the model hold no pattern character).
Glob(dir, suffix) == Sorted({name \in DOMAIN dir : HasSuffix(name, suffix)})

\* Vault.StoreRecord at the instant now: the directory afterwards, the error
\* returned and the record as completed.  ioutil.WriteFile truncates a file
\* that exists and leaves its permissions as they are.
StoreRecord(dir, record, now) ==
    LET withID == IF record.ID = << >> THEN [record EXCEPT !.ID = generateID(now)]
                                       ELSE record
        stamped == IF withID.Timestamp = 0 THEN [withID EXCEPT !.Timestamp = now]
                                           ELSE withID
        filename == FileName(stamped)
        written == [ data |-> Marshal(stamped), ModTime |-> now,
                     readable |-> IF filename \in DOMAIN dir THEN dir[filename].readable
                                                             ELSE TRUE ]
    IN IF ~ShouldRetain(stamped)
       THEN [files |-> dir, err |-> "record does not meet retention criteria",
             record |-> stamped]
       ELSE [files |-> (filename :> written) @@ dir, err |-> "nil", record |-> stamped]

\* Vault.GetRecord.
GetRecord(dir, id) ==
    LET matches == Glob(dir, << "_" >> \o id \o << ".json" >>)
    IN IF Len(matches) = 0 THEN [err |-> "record not found"]
       ELSE IF ~dir[matches[1]].readable THEN [err |-> "failed to read record"]
       ELSE IF ~Unmarshal(dir[matches[1]].data).ok
            THEN [err |-> "failed to unmarshal record"]
       ELSE [err |-> "nil", record |-> Unmarshal(dir[matches[1]].data).record]

\* Mutant of ListRecords: the bounds of the range are included.
ListRecords_Closed(dir, from, to) ==
    LET kept == SelectSeq(Glob(dir, << ".json" >>),
                          LAMBDA name : /\ ReadRecord(dir[name]).ok
                                        /\ ReadRecord(dir[name]).record.Timestamp >= from
                                        /\ ReadRecord(dir[name]).record.Timestamp <= to)
    IN [records |-> [i \in 1 .. Len(kept) |-> ReadRecord(dir[kept[i]]).record],
        err |-> "nil"]

\* Mutant of ListRecords: a file that cannot be read or decoded ends the scan
\* with an error.
ListRecords_Abort(dir, from, to) ==
    LET kept == SelectSeq(Glob(dir, << ".json" >>),
                          LAMBDA name : /\ ReadRecord(dir[name]).ok
                                        /\ ReadRecord(dir[name]).record.Timestamp > from
                                        /\ ReadRecord(dir[name]).record.Timestamp < to)
    IN IF \E name \in DOMAIN dir : ~ReadRecord(dir[name]).ok
       THEN [records |-> << >>, err |-> "failed to read record"]
       ELSE [records |-> [i \in 1 .. Len(kept) |-> ReadRecord(dir[kept[i]]).record],
             err |-> "nil"]

\* Vault.ListRecords: the files in the order of Glob; one that cannot be read
\* or decoded is passed over (continue); Timestamp.After(from) and
\* Timestamp.Before(to) are strict.
ListRecords(dir, from, to) ==
    LET kept == SelectSeq(Glob(dir, << ".json" >>),
                          LAMBDA name : /\ ReadRecord(dir[name]).ok
                                        /\ ReadRecord(dir[name]).record.Timestamp > from
                                        /\ ReadRecord(dir[name]).record.Timestamp < to)
    IN [records |-> [i \in 1 .. Len(kept) |-> ReadRecord(dir[kept[i]]).record],
        err |-> "nil"]

\* Mutant of Expired: a file modified exactly at the cutoff is expired too.
Expired_AtCutoff(file, cutoff) == file.ModTime <= cutoff

\* info.ModTime().Before(cutoff) in CleanupOldRecords.
Expired(file, cutoff) == file.ModTime < cutoff

\* time.Now().AddDate(0, 0, -RetentionDays).
Cutoff(now) == now - VaultConfig.RetentionDays * TicksPerDay

\* Vault.CleanupOldRecords at the instant now, os.Remove failing on the files
\* failing: the directory afterwards, the local count, what is printed and
\* the error returned.
CleanupOldRecords(dir, now, failing) ==
    LET removed == {name \in DOMAIN dir :
                       Expired(dir[name], Cutoff(now)) /\ name \notin failing}
        deleted == Cardinality(removed)
    IN [ files |-> [name \in DOMAIN dir \ removed |-> dir[name]],
         deleted |-> deleted,
         printed |-> IF deleted > 0 THEN << "Cleaned up", deleted >> ELSE << >>,
         err |-> "nil" ]

\* NewVault on a new storage path, the clock running.
VaultInit ==
    /\ NewMonitor(DefaultConfig, LineIds, Procs)
    /\ call = [op |-> "NewVault", ret |-> [err |-> "nil"]]
    /\ files = EmptyDir
    /\ clock = 1
    /\ VaultIdle

\* Vault.mu and the concurrent callers, which the callers of VaultSpec and
\* SweepSpec (one call after the other) leave alone.
LockVars == << vmu, vpc >>

\* The part of the state the Vault does not touch.
MonitorVars ==
    << Config, cpc, cancelled, EventChan, closed, ipc, iret, mpc, sent, wpc, wev,
       wtmp, Metrics, processFrequency, mu, gOffered, gDropped, gDeq, gCounted,
       gIncs, gRecorded, gLines, gStore, snapshot >>

\* One call of StoreRecord on a record of records.  call keeps the argument,
\* the directory before the call, the record as completed and what the caller
\* receives (ret); the clock has moved on when the next call reads it.
StoreFrom(records) ==
    /\ \E record \in records :
         LET res == StoreRecord(files, record, clock)
         IN /\ files' = res.files
            /\ call' = [ op |-> "StoreRecord", record |-> record, before |-> files,
                         now |-> clock, stored |-> res.record,
                         ret |-> [err |-> res.err] ]
    /\ clock' = clock + 1
    /\ UNCHANGED MonitorVars
    /\ UNCHANGED LockVars

\* One call of StoreRecord by a caller of the Vault.
CallStoreRecord == clock <= MaxStores /\ StoreFrom(VaultRecords)

\* One call of GetRecord.
CallGetRecord ==
    /\ \E id \in LookupIds :
         call' = [ op |-> "GetRecord", id |-> id, ret |-> GetRecord(files, id) ]
    /\ UNCHANGED << files, clock >>
    /\ UNCHANGED MonitorVars
    /\ UNCHANGED LockVars

\* One call of ListRecords.
CallListRecords ==
    /\ \E range \in ListRanges :
         call' = [ op |-> "ListRecords", from |-> range[1], to |-> range[2],
                   ret |-> ListRecords(files, range[1], range[2]) ]
    /\ UNCHANGED << files, clock >>
    /\ UNCHANGED MonitorVars
    /\ UNCHANGED LockVars

\* One call of ShouldRetain on a Vault that stores nothing yet.
CallShouldRetain ==
    /\ call.op \in {"NewVault", "ShouldRetain"}
    /\ \E record \in PolicyRecords :
         call' = [ op |-> "ShouldRetain", record |-> record, ret |-> ShouldRetain(record) ]
    /\ UNCHANGED << files, clock >>
    /\ UNCHANGED MonitorVars
    /\ UNCHANGED LockVars

\* The files of the directory that cannot be read or decoded.
Damaged(dir) == {name \in DOMAIN dir : ~ReadRecord(dir[name]).ok}

\* Outside the Vault, one stored file is damaged: its content is overwritten
\* with something that is no JSON object, or its read permission is taken.
FileDamaged ==
    /\ Damaged(files) = {}
    /\ \E name \in DOMAIN files :
         /\ \/ files' = [files EXCEPT ![name].data = Garbage]
            \/ files' = [files EXCEPT ![name].readable = FALSE]
         /\ call' = [op |-> "FileDamaged", name |-> name]
    /\ UNCHANGED clock
    /\ UNCHANGED MonitorVars
    /\ UNCHANGED LockVars

VaultNext ==
    \/ CallStoreRecord
    \/ CallGetRecord
    \/ CallListRecords
    \/ CallShouldRetain
    \/ FileDamaged

VaultSpec == VaultInit /\ [][VaultNext]_vars

\* ---------------------------------------------------------- the expiry sweep

\* ForensicRecord values stored before a sweep: kept by the policy, the id
\* left to the Vault, with a Timestamp of their own or without.
SweepRecords ==
    { [ID |-> << >>, Timestamp |-> timestamp, IncidentType |-> "",
       Severity |-> "critical", RiskScore |-> 10] : timestamp \in {0, 3} }

\* One call of StoreRecord while the directory has room.
SweepStore ==
    /\ clock < MaxClock
    /\ Cardinality(DOMAIN files) < MaxFiles
    /\ StoreFrom(SweepRecords)

\* Time passes.
Tick ==
    /\ clock < MaxClock
    /\ clock' = clock + 1
    /\ call' = [op |-> "Tick"]
    /\ UNCHANGED files
    /\ UNCHANGED MonitorVars
    /\ UNCHANGED LockVars

\* One call of CleanupOldRecords; os.Remove fails on any of the expired files.
CallCleanupOldRecords ==
    /\ \E failing \in SUBSET {name \in DOMAIN files : Expired(files[name], Cutoff(clock))} :
         LET res == CleanupOldRecords(files, clock, failing)
         IN /\ files' = res.files
            /\ call' = [ op |-> "CleanupOldRecords", before |-> files, now |-> clock,
                         failing |-> failing, deleted |-> res.deleted,
                         printed |-> res.printed, ret |-> [err |-> res.err] ]
    /\ UNCHANGED clock
    /\ UNCHANGED MonitorVars
    /\ UNCHANGED LockVars

SweepNext == SweepStore \/ Tick \/ CallCleanupOldRecords

SweepSpec == VaultInit /\ [][SweepNext]_vars

\* ------------------------------------------------ the metrics reporter

\* Number of ticks of the reporter's ticker in MetricsSpec.
MaxTicks == 1

\* The fields of ProcessorMetrics in the order GetMetrics loads them, and the
\* reporter's position before each load.
LoadOrder == << "TotalEvents", "ProcessedEvents", "AnomaliesDetected", "ErrorCount" >>
LoadPc == << "loadTotal", "loadProcessed", "loadAnomalies", "loadErrors" >>

\* Monitor.collectMetrics, the ticker case of its select: GetMetrics is
\* called.  call counts the ticks.
MetricsTick ==
    /\ mpc = "wait"
    /\ call.n < MaxTicks
    /\ call' = [n |-> call.n + 1]
    /\ mpc' = LoadPc[1]
    /\ UNCHANGED << cpc, cancelled, EventChan, closed, ipc, iret, sent, wpc, wev,
                    wtmp, Metrics, processFrequency, mu, gOffered, gDropped,
                    gDeq, gCounted, gIncs, gRecorded >>
    /\ UNCHANGED << Config, gLines, gStore, files, clock, vmu, vpc, snapshot >>

\* EventProcessor.GetMetrics, one atomic.LoadInt64 into the value it builds;
\* after the last one the value is returned.
MetricsLoad ==
    /\ \E i \in 1 .. Len(LoadOrder) :
          /\ mpc = LoadPc[i]
          /\ snapshot' = [snapshot EXCEPT ![LoadOrder[i]] = Metrics[LoadOrder[i]]]
          /\ mpc' = IF i = Len(LoadOrder) THEN "print" ELSE LoadPc[i + 1]
    /\ UNCHANGED << cpc, cancelled, EventChan, closed, ipc, iret, sent, wpc, wev,
                    wtmp, Metrics, processFrequency, mu, gOffered, gDropped,
                    gDeq, gCounted, gIncs, gRecorded >>
    /\ UNCHANGED << Config, gLines, gStore, call, files, clock, vmu, vpc >>

\* Monitor.collectMetrics prints the value and goes back to its select.
MetricsPrint ==
    /\ mpc = "print"
    /\ mpc' = "wait"
    /\ UNCHANGED << cpc, cancelled, EventChan, closed, ipc, iret, sent, wpc, wev,
                    wtmp, Metrics, processFrequency, mu, gOffered, gDropped,
                    gDeq, gCounted, gIncs, gRecorded >>
    /\ UNCHANGED << Config, gLines, gStore, call, files, clock, vmu, vpc, snapshot >>

MetricsNext == Next \/ MetricsTick \/ MetricsLoad \/ MetricsPrint

MetricsSpec == Init /\ [][MetricsNext]_vars

\* ------------------------------------------------------- a second Stop

\* Monitor.Stop called again after a Stop that returned: m.cancel() on a
\* cancelled context does nothing, m.wg.Wait() returns at once on a counter at
\* zero, and close(m.EventChan) on a closed channel panics ("close of closed
\* channel"), which ends the process.
StopAgain ==
    /\ cpc = "stopped"
    /\ cancelled' = TRUE
    /\ WaitGroupZero
    /\ IF closed THEN cpc' = "panic" /\ closed' = closed
                 ELSE cpc' = "stopped" /\ closed' = TRUE
    /\ UNCHANGED << EventChan, ipc, iret, mpc, sent, wpc, wev, wtmp,
                    Metrics, processFrequency, mu, gOffered, gDropped, gDeq,
                    gCounted, gIncs, gRecorded >>
    /\ UNCHANGED << Config, gLines, gStore, call, files, clock,
                    vmu, vpc, snapshot >>

\* The goroutines run until the process ends.
StopTwiceNext == (cpc # "panic" /\ Next) \/ StopAgain

StopTwiceSpec == Init /\ [][StopTwiceNext]_vars

\* ------------------------------------------- concurrent callers of the Vault

\* Mutant of RLockFree: RLock excludes nobody.
RLockFree_Always(m) == TRUE

\* sync.RWMutex on Vault.mu: RLock proceeds when no caller holds the write lock.
RLockFree(m) == m.writer = "none"

\* sync.RWMutex on Vault.mu: Lock proceeds when no caller holds the lock.
LockFree(m) == m.writer = "none" /\ m.readers = {}

\* Content of a file ioutil.WriteFile has opened (O_CREATE|O_TRUNC) and not
\* written yet.
Truncated == [bytes |-> ""]

\* A record an earlier run of the program stored at tick 1, and the storage
\* directory it left.
OldRecord ==
    [ID |-> << >>, Timestamp |-> 0, IncidentType |-> "", Severity |-> "critical",
     RiskScore |-> 10]
OldDir == StoreRecord(EmptyDir, OldRecord, 1).files

\* The tick at which LockSpec starts: the old record has left the retention
\* window.
LockStart == 2 + VaultConfig.RetentionDays * TicksPerDay

\* The ids the getter looks up: the old record's and the first new one's.
LockIds == { generateID(1), generateID(LockStart) }

\* The range the lister asks for: every instant of the model.
LockRange == << 0, LockStart + MaxStores + 1 >>

\* NewVault on the storage directory of an earlier run.
LockInit ==
    /\ NewMonitor(DefaultConfig, LineIds, Procs)
    /\ call = [op |-> "NewVault", ret |-> [err |-> "nil"]]
    /\ files = OldDir
    /\ clock = LockStart
    /\ VaultIdle

\* A caller starts StoreRecord and reaches v.mu.Lock().
StoreBegin ==
    /\ vpc["store"].pc = "idle"
    /\ clock < LockStart + MaxStores
    /\ \E record \in SweepRecords :
          vpc' = [vpc EXCEPT !["store"] = [pc |-> "wait", record |-> record]]
    /\ UNCHANGED << vmu, files, clock, call >>
    /\ UNCHANGED MonitorVars

\* StoreRecord, v.mu.Lock() returns; the id, the timestamp, the policy and the
\* file name are computed.
StoreLock ==
    /\ vpc["store"].pc = "wait"
    /\ LockFree(vmu)
    /\ vmu' = [vmu EXCEPT !.writer = "store"]
    /\ LET res == StoreRecord(files, vpc["store"].record, clock)
       IN vpc' = [vpc EXCEPT !["store"] =
                     [pc |-> IF res.err = "nil" THEN "open" ELSE "unlock", res |-> res]]
    /\ clock' = clock + 1
    /\ UNCHANGED << files, call >>
    /\ UNCHANGED MonitorVars

\* StoreRecord, ioutil.WriteFile opens the file: it exists and is empty.
StoreOpen ==
    /\ vpc["store"].pc = "open"
    /\ LET res == vpc["store"].res
           name == FileName(res.record)
       IN files' = (name :> [res.files[name] EXCEPT !.data = Truncated]) @@ files
    /\ vpc' = [vpc EXCEPT !["store"].pc = "write"]
    /\ UNCHANGED << vmu, clock, call >>
    /\ UNCHANGED MonitorVars

\* StoreRecord, ioutil.WriteFile writes the data and closes the file.
StoreWrite ==
    /\ vpc["store"].pc = "write"
    /\ files' = vpc["store"].res.files
    /\ vpc' = [vpc EXCEPT !["store"].pc = "unlock"]
    /\ UNCHANGED << vmu, clock, call >>
    /\ UNCHANGED MonitorVars

\* StoreRecord returns, the deferred v.mu.Unlock() runs.
StoreUnlock ==
    /\ vpc["store"].pc = "unlock"
    /\ vmu' = [vmu EXCEPT !.writer = "none"]
    /\ vpc' = [vpc EXCEPT !["store"] = [pc |-> "idle"]]
    /\ UNCHANGED << files, clock, call >>
    /\ UNCHANGED MonitorVars

\* A caller starts CleanupOldRecords and reaches v.mu.Lock().
SweepBegin ==
    /\ vpc["sweep"].pc = "idle"
    /\ vpc' = [vpc EXCEPT !["sweep"] = [pc |-> "wait"]]
    /\ UNCHANGED << vmu, files, clock, call >>
    /\ UNCHANGED MonitorVars

\* CleanupOldRecords, v.mu.Lock() returns; the cutoff and the file list.
SweepLock ==
    /\ vpc["sweep"].pc = "wait"
    /\ LockFree(vmu)
    /\ vmu' = [vmu EXCEPT !.writer = "sweep"]
    /\ vpc' = [vpc EXCEPT !["sweep"] =
                  [pc |-> "remove", cutoff |-> Cutoff(clock),
                   todo |-> Glob(files, << ".json" >>)]]
    /\ UNCHANGED << files, clock, call >>
    /\ UNCHANGED MonitorVars

\* CleanupOldRecords, one round of the loop: os.Remove on an expired file
\* deletes it or fails.
SweepRemove ==
    /\ vpc["sweep"].pc = "remove"
    /\ vpc["sweep"].todo # << >>
    /\ LET name == Head(vpc["sweep"].todo)
       IN IF Expired(files[name], vpc["sweep"].cutoff)
          THEN \E removed \in BOOLEAN :
                  files' = IF removed THEN [n \in DOMAIN files \ {name} |-> files[n]]
                                      ELSE files
          ELSE files' = files
    /\ vpc' = [vpc EXCEPT !["sweep"].todo = Tail(@)]
    /\ UNCHANGED << vmu, clock, call >>
    /\ UNCHANGED MonitorVars

\* CleanupOldRecords returns, the deferred v.mu.Unlock() runs.
SweepUnlock ==
    /\ vpc["sweep"].pc = "remove"
    /\ vpc["sweep"].todo = << >>
    /\ vmu' = [vmu EXCEPT !.writer = "none"]
    /\ vpc' = [vpc EXCEPT !["sweep"] = [pc |-> "idle"]]
    /\ UNCHANGED << files, clock, call >>
    /\ UNCHANGED MonitorVars

\* A caller starts GetRecord and reaches v.mu.RLock().
GetBegin ==
    /\ vpc["get"].pc = "idle"
    /\ \E id \in LockIds : vpc' = [vpc EXCEPT !["get"] = [pc |-> "wait", id |-> id]]
    /\ UNCHANGED << vmu, files, clock, call >>
    /\ UNCHANGED MonitorVars

\* A caller starts ListRecords and reaches v.mu.RLock().
ListBegin ==
    /\ vpc["list"].pc = "idle"
    /\ vpc' = [vpc EXCEPT !["list"] = [pc |-> "wait"]]
    /\ UNCHANGED << vmu, files, clock, call >>
    /\ UNCHANGED MonitorVars

\* GetRecord or ListRecords, v.mu.RLock() returns.
ReadLock(p) ==
    /\ vpc[p].pc = "wait"
    /\ RLockFree(vmu)
    /\ vmu' = [vmu EXCEPT !.readers = @ \cup {p}]
    /\ vpc' = [vpc EXCEPT ![p].pc = "glob"]
    /\ UNCHANGED << files, clock, call >>
    /\ UNCHANGED MonitorVars

\* GetRecord, filepath.Glob.
GetGlob ==
    /\ vpc["get"].pc = "glob"
    /\ vpc' = [vpc EXCEPT !["get"] =
                  [pc |-> "read", id |-> @.id,
                   names |-> Glob(files, << "_" >> \o @.id \o << ".json" >>)]]
    /\ UNCHANGED << vmu, files, clock, call >>
    /\ UNCHANGED MonitorVars

\* ListRecords, filepath.Glob.
ListGlob ==
    /\ vpc["list"].pc = "glob"
    /\ vpc' = [vpc EXCEPT !["list"] = [pc |-> "read", names |-> Glob(files, << ".json" >>)]]
    /\ UNCHANGED << vmu, files, clock, call >>
    /\ UNCHANGED MonitorVars

\* ioutil.ReadFile and json.Unmarshal on a name Glob has returned: the file
\* may be gone or hold no JSON object by now.
ReadNamed(dir, name) ==
    IF name \in DOMAIN dir THEN ReadRecord(dir[name]) ELSE [ ok |-> FALSE ]

\* GetRecord reads the first file of the list and returns; the deferred
\* v.mu.RUnlock() runs.
GetRead ==
    /\ vpc["get"].pc = "read"
    /\ LET names == vpc["get"].names
           ret == IF Len(names) = 0 THEN [err |-> "record not found"]
                  ELSE IF names[1] \notin DOMAIN files \/ ~files[names[1]].readable
                  THEN [err |-> "failed to read record"]
                  ELSE IF ~ReadNamed(files, names[1]).ok
                  THEN [err |-> "failed to unmarshal record"]
                  ELSE [err |-> "nil", record |-> ReadNamed(files, names[1]).record]
       IN call' = [op |-> "GetRecord", id |-> vpc["get"].id, names |-> names, ret |-> ret]
    /\ vmu' = [vmu EXCEPT !.readers = @ \ {"get"}]
    /\ vpc' = [vpc EXCEPT !["get"] = [pc |-> "idle"]]
    /\ UNCHANGED << files, clock >>
    /\ UNCHANGED MonitorVars

\* ListRecords reads the files of the list, passing over those it cannot
\* read or decode, and returns; the deferred v.mu.RUnlock() runs.
ListRead ==
    /\ vpc["list"].pc = "read"
    /\ LET names == vpc["list"].names
           kept == SelectSeq(names,
                             LAMBDA name :
                                 /\ ReadNamed(files, name).ok
                                 /\ ReadNamed(files, name).record.Timestamp > LockRange[1]
                                 /\ ReadNamed(files, name).record.Timestamp < LockRange[2])
       IN call' = [ op |-> "ListRecords", from |-> LockRange[1], to |-> LockRange[2],
                    names |-> names,
                    ret |-> [records |-> [i \in 1 .. Len(kept) |->
                                             ReadNamed(files, kept[i]).record],
                             err |-> "nil"] ]
    /\ vmu' = [vmu EXCEPT !.readers = @ \ {"list"}]
    /\ vpc' = [vpc EXCEPT !["list"] = [pc |-> "idle"]]
    /\ UNCHANGED << files, clock >>
    /\ UNCHANGED MonitorVars

LockNext ==
    \/ StoreBegin
    \/ StoreLock
    \/ StoreOpen
    \/ StoreWrite
    \/ StoreUnlock
    \/ SweepBegin
    \/ SweepLock
    \/ SweepRemove
    \/ SweepUnlock
    \/ GetBegin
    \/ ListBegin
    \/ \E p \in {"get", "list"} : ReadLock(p)
    \/ GetGlob
    \/ ListGlob
    \/ GetRead
    \/ ListRead

LockSpec == LockInit /\ [][LockNext]_vars

\* ---------------------------------------------- isSensitiveFile on its own

\* What stands before and after the middle of a path.
PathPrefixes == { << >>, << "/", "m", "n", "t" >>, << "x" >> }
PathSuffixes == { << >>, << "/", "i", "d" >>, << ".", "b", "a", "k" >> }

\* The middles: every pattern, every pattern short of its last or of its first
\* character, a pattern in capitals, and names that hold none.
PathMiddles ==
    sensitivePatterns
      \cup { SubSeq(pattern, 1, Len(pattern) - 1) : pattern \in sensitivePatterns }
      \cup { Tail(pattern) : pattern \in sensitivePatterns }
      \cup { << "T", "o", "k", "e", "n" >>, << "/", "t", "m", "p" >>, << >> }

\* The paths handed to isSensitiveFile.
Paths == { pre \o mid \o suf : pre \in PathPrefixes, mid \in PathMiddles, suf \in PathSuffixes }

\* The event whose fd.name is path.
FileEvent(path) == [Benign EXCEPT !.Fields = ("fd.name" :> path)]

\* A caller holding a path.
PathInit ==
    /\ NewMonitor(DefaultConfig, LineIds, Procs)
    /\ \E path \in Paths : call = [op |-> "none", path |-> path]
    /\ NoVault

\* One call of isSensitiveFile.
CallIsSensitiveFile ==
    /\ call.op = "none"
    /\ call' = [op |-> "isSensitiveFile", path |-> call.path,
                ret |-> isSensitiveFile(call.path)]
    /\ UNCHANGED << files, clock >>
    /\ UNCHANGED MonitorVars
    /\ UNCHANGED LockVars

\* One call of FeatureExtractor.Extract on an event that names the path and
\* no actor.
CallExtract ==
    /\ call.op = "none"
    /\ call' = [op |-> "Extract", path |-> call.path,
                features |-> Extract(FileEvent(call.path), 0)]
    /\ UNCHANGED << files, clock >>
    /\ UNCHANGED MonitorVars
    /\ UNCHANGED LockVars

PathNext == CallIsSensitiveFile \/ CallExtract

PathSpec == PathInit /\ [][PathNext]_vars

\* ------------------------------------------------------------- properties

Full == Len(EventChan) = BufferSize

\* Number of places of the channel buffer that hold the event id.
InChan(id) == Cardinality({i \in 1 .. Len(EventChan) : EventChan[i].id = id})

\* The workers that hold the event id.
Holders(id) == {w \in WorkerIds : wev[w].id = id}

\* f[1] + ... + f[n]
RECURSIVE SumTo(_, _)
SumTo(f, n) == IF n = 0 THEN 0 ELSE f[n] + SumTo(f, n - 1)

\* Number of receives made so far.
Dequeued == SumTo(gDeq, MaxLines)

\* A worker is idle between two events, before it started and after it exited.
WorkersIdle == \A w \in WorkerIds : wpc[w] \in {"idle", "select", "exited"}

\* C1: the channel never holds more than BufferSize events, and an enqueue
\* attempt on a full channel returns at once (the loop goes on to its next
\* iteration), leaves the channel's events and their order as they were, and
\* discards the new event.
C1_DropNewestOnFull ==
    /\ [](Len(EventChan) <= BufferSize)
    /\ [][(Full /\ gOffered' # gOffered) =>
            /\ EventChan' = EventChan
            /\ gDropped' = gDropped \cup (gOffered' \ gOffered)
            /\ ipc' = "select"]_vars

\* C1 witness: an event was dropped and the channel is still full.
C1_Witness == gDropped # {} /\ Full

\* C2 (as claimed): a drop is recorded in a counter other than ErrorCount.
\* ProcessorMetrics holds every counter of the program; a step that drops an
\* event would have to add one to one of them.
C2_DropIsCounted ==
    [][gDropped' # gDropped =>
          \E f \in DOMAIN Metrics \ {"ErrorCount"} : Metrics'[f] = Metrics[f] + 1]_vars

\* C3: event conservation.  Every event that passed the filter is in exactly
\* one place: dropped at the full channel, waiting in the channel (once), or
\* received by exactly one worker; no other event is anywhere.  A received
\* event is counted in TotalEvents exactly once, by the first step its worker
\* takes after the receive, and never again; TotalEvents counts nothing else.
C3_EventConservation ==
    /\ \A id \in LineIds :
          /\ (IF id \in gDropped THEN 1 ELSE 0) + InChan(id) + gDeq[id]
                = (IF id \in gOffered THEN 1 ELSE 0)
          /\ Cardinality(Holders(id)) <= gDeq[id]
          /\ gCounted[id] =
                (IF gDeq[id] = 1 /\ \A w \in Holders(id) : wpc[w] # "count"
                 THEN 1 ELSE 0)
    /\ Metrics.TotalEvents = SumTo(gCounted, MaxLines)

\* C3 witness: one event was dropped, another was received and counted.
C3_Witness == gDropped # {} /\ \E id \in LineIds : gCounted[id] = 1

\* C4: ProcessedEvents + ErrorCount <= TotalEvents <= number of receives, with
\* equality throughout whenever every worker is idle.
C4_CounterBounds ==
    /\ Metrics.ProcessedEvents + Metrics.ErrorCount <= Metrics.TotalEvents
    /\ Metrics.TotalEvents <= Dequeued
    /\ WorkersIdle =>
          /\ Metrics.ProcessedEvents + Metrics.ErrorCount = Metrics.TotalEvents
          /\ Metrics.TotalEvents = Dequeued

\* C4 witness: every worker is idle after two events were handled.
C4_Witness == WorkersIdle /\ Metrics.TotalEvents = 2

\* C5 (as claimed): the channel is closed only after every worker exited.
C5_CloseAfterWorkersExit == closed => \A w \in WorkerIds : wpc[w] = "exited"

\* C6 (as claimed): once the context is cancelled, no worker receives another
\* event.
C6_NoReceiveAfterCancel == [][cancelled => gDeq' = gDeq]_vars

\* C7 (as claimed): once the context is cancelled, the ingestion task puts no
\* further event on the channel.
C7_NoEnqueueAfterCancel == [][cancelled => Len(EventChan') <= Len(EventChan)]_vars

\* C8 (as claimed): once the context is cancelled, the ingestion loop
\* eventually exits and Stop eventually returns, whatever the stream does.
C8_StopReturns == cancelled ~> (ipc = "exited" /\ cpc = "stopped")

\* C9: no lost update.  The table's count of an actor is the number of
\* updateProcessFrequency calls completed for it, under every interleaving.
C9_NoLostUpdate == \A p \in Procs : processFrequency[p] = gIncs[p]

\* C9 witness: two Extract calls for the same actor completed their update.
C9_Witness == \E p \in Procs : gIncs[p] = 2 /\ processFrequency[p] = 2

\* C10 (as claimed): the ProcessFrequency an Extract call records is the
\* table value right after that call's own increment.
C10_IncrementThenReadAtomic ==
    \A id \in LineIds : gRecorded[id][2] # 0 => gRecorded[id][2] = gRecorded[id][1]

\* ------------------------------------------- properties of processEvent

\* The last two direct calls were made on the same event.
SameEventTwice == call.n >= 2 /\ call.prev.event = call.last.event

\* The rule-based trigger: priority Critical or Emergency, or a rule name of
\* the denylist.
RuleTrigger(event) == event.prio \in {"Critical", "Emergency"} \/ event.rule \in knownThreats

Ind(b) == IF b THEN 1 ELSE 0

Max(a, b) == IF a >= b THEN a ELSE b

\* The weighted sum of the four indicators, in hundredths, not normalised.
HeuristicSum(features) ==
      30 * Ind(features.SensitiveFiles # << >>)
    + 20 * Ind(features.NetworkConnCount >= 11)
    + 20 * Ind(features.FileAccessCount >= 51)
    + 40 * Ind(features.ProcessName \in {"nc", "ncat", "netcat", "wget", "curl"})

\* C11 (as claimed): two Extract calls in a row on the same event give feature
\* records equal in every field but ProcessFrequency, and the second
\* ProcessFrequency is the first plus 1.
C11_ExtractTwice ==
    SameEventTwice =>
       LET first == call.prev.processed.Features
           second == call.last.processed.Features
       IN /\ [second EXCEPT !.ProcessFrequency = 0] = [first EXCEPT !.ProcessFrequency = 0]
          /\ second.ProcessFrequency = first.ProcessFrequency + 1

\* C11 (amended): two Extract calls in a row on the same event give feature
\* records equal in every field but ProcessFrequency; the second
\* ProcessFrequency is the first plus 1 when the event names its actor
\* (proc.name is a string), and both are 0 when it does not.
C11_ExtractTwiceActor ==
    SameEventTwice =>
       LET first == call.prev.processed.Features
           second == call.last.processed.Features
       IN /\ [second EXCEPT !.ProcessFrequency = 0] = [first EXCEPT !.ProcessFrequency = 0]
          /\ IF HasString(call.last.event, "proc.name")
             THEN second.ProcessFrequency = first.ProcessFrequency + 1
             ELSE second.ProcessFrequency = 0 /\ first.ProcessFrequency = 0

\* C11 witness: the same event, naming its actor and a file, was extracted
\* twice; the frequencies recorded are 1 and 2.
C11_Witness ==
    /\ SameEventTwice
    /\ HasString(call.last.event, "proc.name")
    /\ HasString(call.last.event, "fd.name")
    /\ call.prev.processed.Features.ProcessFrequency = 1
    /\ call.last.processed.Features.ProcessFrequency = 2

\* C12: an event whose priority is Critical or Emergency, or whose rule name
\* equals an entry of the denylist, gets a verdict with Anomaly true and a
\* risk score of at least 0.95, whatever its other fields.
C12_RuleMatchIsAnomaly ==
    (call.n >= 1 /\ RuleTrigger(call.last.event)) =>
       /\ call.last.processed.Anomaly
       /\ call.last.processed.RiskScore >= 95

\* C12 witness: an Emergency event of a suspicious process on a sensitive file
\* got its verdict.
C12_Witness ==
    /\ call.n >= 1
    /\ call.last.event.prio = "Emergency"
    /\ String(call.last.event, "proc.name") = "nc"
    /\ HasString(call.last.event, "fd.name")
    /\ call.last.event.Fields["fd.name"] = EtcShadow
    /\ call.last.processed.Anomaly

\* C13: the risk score of a verdict is the larger of the rule-based score
\* (0.95 on a rule match, else 0) and the heuristic score; the heuristic score
\* is the sum of the weights of the indicators that hold, not normalised; an
\* event of a denylisted rule and a suspicious process gets exactly 0.95.
C13_ScoreIsMax ==
    /\ call.n >= 1 =>
          call.last.processed.RiskScore =
             Max(IF RuleTrigger(call.last.event) THEN 95 ELSE 0,
                 HeuristicSum(call.last.processed.Features))
    /\ (call.n >= 1 /\ call.last.event.rule \in knownThreats
                    /\ String(call.last.event, "proc.name") \in suspiciousProcesses) =>
          call.last.processed.RiskScore = 95
    /\ "scored" \in DOMAIN call =>
          call.scored.score = HeuristicSum(call.scored.features)

\* C13 witness: an event of a denylisted rule and a suspicious process on a
\* sensitive file got 0.95.
C13_Witness ==
    /\ call.n >= 1
    /\ call.last.event.rule = "Write below etc"
    /\ String(call.last.event, "proc.name") = "nc"
    /\ HasString(call.last.event, "fd.name")
    /\ call.last.event.Fields["fd.name"] = EtcShadow
    /\ call.last.processed.RiskScore = 95

C15_ScoreInUnitInterval ==
    call.n >= 1 => call.last.processed.RiskScore \in 0 .. 100

\* C15 witness: a verdict for an event with every indicator Extract can set
\* (suspicious process, sensitive file, network field) and no rule match.
C15_Witness ==
    /\ call.n >= 1
    /\ ~RuleTrigger(call.last.event)
    /\ String(call.last.event, "proc.name") = "nc"
    /\ HasString(call.last.event, "fd.name")
    /\ call.last.event.Fields["fd.name"] = EtcShadow
    /\ HasString(call.last.event, "fd.sip")
    /\ call.last.processed.RiskScore = 70

\* C16: two runs of processEvent on the same event give the same risk score
\* and the same anomaly flag, whatever the frequency table holds and whatever
\* the wall clock reads.
C16_ScoreDeterministic ==
    SameEventTwice =>
       /\ call.last.processed.RiskScore = call.prev.processed.RiskScore
       /\ call.last.processed.Anomaly = call.prev.processed.Anomaly

\* C16 witness: two runs on the same event saw different table values and
\* different clock readings.
C16_Witness ==
    /\ SameEventTwice
    /\ call.last.processed.Features.ProcessFrequency
          # call.prev.processed.Features.ProcessFrequency
    /\ call.last.processed.Timestamp # call.prev.processed.Timestamp
    /\ call.last.processed.RiskScore > 0

\* ------------------------------------------------ properties of the scenario

\* Every event of the scenario was scanned, received and handled to the end.
ScenarioDone ==
    /\ Scanned = ScenarioEvents
    /\ \A id \in ScenarioIds : gDeq[id] = 1
    /\ WorkersIdle

\* C17 (as claimed): with one worker and a queue of ten, the three events of
\* the scenario end with 2 stored records, AnomaliesDetected = 2 and
\* ProcessedEvents = 3.
C17_EndToEnd ==
    ScenarioDone =>
       /\ gStore.stored = 2
       /\ Metrics.AnomaliesDetected = 2
       /\ Metrics.ProcessedEvents = 3

\* C18: when processEvent returns an error, ErrorCount grows by exactly 1,
\* ProcessedEvents does not grow, the event goes back to no queue, and the
\* worker is at its select again; no event is received twice.
C18_ErrorCounted ==
    /\ [](\A id \in ScenarioIds : gDeq[id] <= 1)
    /\ [][gStore'.failed # gStore.failed =>
            /\ Metrics'.ErrorCount = Metrics.ErrorCount + 1
            /\ Metrics'.ProcessedEvents = Metrics.ProcessedEvents
            /\ Metrics'.TotalEvents = Metrics.TotalEvents
            /\ EventChan' = EventChan
            /\ \E w \in WorkerIds :
                  wpc[w] = "finish" /\ wpc'[w] = "select" /\ wev'[w] = NoEvent]_vars

\* C18 witness: after a failed event the same worker received the next one.
C18_Witness ==
    /\ gStore.failed = 1
    /\ Metrics.ErrorCount = 1
    /\ \E w \in WorkerIds : wpc[w] = "count" /\ gDeq[wev[w].id] = 1

\* --------------------------------------------- properties of the ingestion

\* sub occurs in s (sub not empty).
IsSubstring(sub, s) ==
    \E i \in 1 .. (Len(s) - Len(sub) + 1) : SubSeq(s, i, i + Len(sub) - 1) = sub

\* The filter as configured: no namespace filter or the event's namespace,
\* and no deployment filter or a pod name that holds it.
FilterPasses(event) ==
    /\ Config.Namespace = "" \/ event.ns = Config.Namespace
    /\ Config.Deployment = << >> \/ IsSubstring(Config.Deployment, event.pod)

\* The line the step has scanned.
LineScanned == gLines'[Len(gLines')]

\* C19: a malformed line offers no event, changes no counter and does not end
\* the loop; every well-formed line that passes the filter and follows a
\* malformed line is offered to the queue.
C19_BadLineSkipped ==
    /\ [](\A i \in 1 .. Len(gLines) :
             gLines[i].bad =>
                /\ i \notin gOffered
                /\ \A j \in (i + 1) .. Len(gLines) :
                      (~gLines[j].bad /\ FilterPasses(gLines[j])) => j \in gOffered)
    /\ [][(Len(gLines') > Len(gLines) /\ LineScanned.bad) =>
            /\ EventChan' = EventChan
            /\ Metrics' = Metrics
            /\ gOffered' = gOffered
            /\ gDropped' = gDropped
            /\ ipc' = "select"]_vars

\* C19 witness: a malformed line was followed by a line that was offered.
C19_Witness == Len(gLines) = 2 /\ gLines[1].bad /\ 2 \in gOffered

\* C20: a decoded event is offered to the queue if and only if it passes the
\* filter as configured; an event that fails the filter is discarded and
\* changes no counter.
C20_FilterDecidesOffer ==
    /\ [](\A i \in 1 .. Len(gLines) :
             ~gLines[i].bad => (i \in gOffered <=> FilterPasses(gLines[i])))
    /\ [][(Len(gLines') > Len(gLines) /\ ~LineScanned.bad /\ ~FilterPasses(LineScanned)) =>
            /\ EventChan' = EventChan
            /\ Metrics' = Metrics
            /\ gDropped' = gDropped
            /\ ipc' = "select"]_vars

\* C20 witness: under both filters, an event whose pod name holds the
\* deployment name after a false start was offered and an event of another
\* namespace was discarded.
C20_Witness ==
    /\ Config.Namespace = "prod"
    /\ Config.Deployment = << "w", "e", "b" >>
    /\ Len(gLines) = 2
    /\ gLines[1].pod = << "w", "w", "e", "b", "1" >>
    /\ 1 \in gOffered
    /\ ~gLines[2].bad
    /\ gLines[2].ns = "other"
    /\ 2 \notin gOffered

\* ------------------------------------------------- what the controller is told

\* Monitor.Start returns nil once the goroutines are spawned; the error that
\* consumeFalcoEvents returns is printed inside the ingestion goroutine.
StartReturns == "nil"

\* Monitor.Stop returns nil.
StopReturns == "nil"

\* The values the owner of the Monitor receives from it.
ControllerReceives == { StartReturns, StopReturns }

\* C21: when the connection to the event source cannot be established the
\* ingestion task ends with the error and never runs again (no retry), the
\* step leaves the workers and the metrics reporter as they were, and the
\* failure reaches the controller that owns the Monitor.
C21_DialFailureSurfaced ==
    /\ [][(ipc = "dial" /\ ipc' \notin {"dial", "select"}) =>
            /\ ipc' = "exited"
            /\ iret' = "error"
            /\ wpc' = wpc
            /\ mpc' = mpc
            /\ EventChan' = EventChan
            /\ iret' \in ControllerReceives]_vars
    /\ [][ipc = "exited" => ipc' = "exited" /\ iret' = iret]_vars

\* ------------------------------------------------------------ vault properties

\* The records of the readable files of a directory.
Records(dir) == {ReadRecord(dir[name]).record : name \in DOMAIN dir \ Damaged(dir)}

\* The files a call added to the directory, and the files of before it changed
\* or removed.
Added == DOMAIN files \ DOMAIN call.before
Touched == {name \in DOMAIN call.before :
               name \notin DOMAIN files \/ files[name] # call.before[name]}

\* C22: StoreRecord on a record the policy does not accept returns the
\* policy-rejection outcome and leaves the directory as it was; StoreRecord on
\* an accepted record adds exactly one file and changes no other file.
C22_StoreOutcome ==
    call.op = "StoreRecord" =>
        IF ~ShouldRetain(call.stored)
        THEN /\ call.ret.err = "record does not meet retention criteria"
             /\ files = call.before
        ELSE /\ call.ret.err = "nil"
             /\ Cardinality(Added) = 1
             /\ Touched = {}

\* C23: ShouldRetain keeps a record exactly when its severity is critical or
\* high, or its severity is medium and its risk score is above 0.7, or its
\* incident type is set and is not "false-positive"; a critical record with
\* risk 0.1 is kept, a low record with risk 0.99 and no incident type is
\* dropped.
C23_RetentionRule ==
    call.op = "ShouldRetain" =>
        /\ call.ret <=>
              \/ call.record.Severity \in {"critical", "high"}
              \/ call.record.Severity = "medium" /\ call.record.RiskScore > 70
              \/ call.record.IncidentType \notin {"", "false-positive"}
        /\ (call.record.Severity = "critical" /\ call.record.RiskScore = 10) => call.ret
        /\ (/\ call.record.Severity = "low"
            /\ call.record.RiskScore = 99
            /\ call.record.IncidentType = "") => ~call.ret

\* C23 witness: a medium record at risk 0.7 exactly, marked "false-positive",
\* was dropped.
C23_Witness ==
    /\ call.op = "ShouldRetain"
    /\ call.record.Severity = "medium"
    /\ call.record.RiskScore = 70
    /\ call.record.IncidentType = "false-positive"
    /\ ~call.ret

\* C24: once StoreRecord has accepted a record, GetRecord with that record's
\* id returns a record equal to the one stored; an id and a timestamp the
\* caller supplied are preserved, unset ones are replaced by the assigned ones.
C24_RoundTrip ==
    (call.op = "StoreRecord" /\ call.ret.err = "nil") =>
        /\ call.record.ID # << >> => call.stored.ID = call.record.ID
        /\ call.record.ID = << >> => call.stored.ID = generateID(call.now)
        /\ call.record.Timestamp # 0 => call.stored.Timestamp = call.record.Timestamp
        /\ call.record.Timestamp = 0 => call.stored.Timestamp = call.now
        /\ GetRecord(files, call.stored.ID) = [err |-> "nil", record |-> call.stored]

\* C25: GetRecord(id) returns a record whose ID is id when such a record is
\* stored and fails otherwise; it never returns a record with another ID.
C25_ExactLookup ==
    call.op = "GetRecord" =>
        IF \E record \in Records(files) : record.ID = call.id
        THEN call.ret.err = "nil" /\ call.ret.record.ID = call.id
        ELSE call.ret.err # "nil"

\* The files ListRecords(from, to) has to return: readable, Timestamp strictly
\* between the bounds.
InRange(dir, from, to) ==
    {name \in DOMAIN dir \ Damaged(dir) :
        /\ from < ReadRecord(dir[name]).record.Timestamp
        /\ ReadRecord(dir[name]).record.Timestamp < to}

\* C26: ListRecords(from, to) returns exactly the stored, readable records
\* whose timestamp t satisfies from < t < to, each once.
C26_OpenInterval ==
    call.op = "ListRecords" =>
        /\ call.ret.err = "nil"
        /\ {call.ret.records[i] : i \in 1 .. Len(call.ret.records)}
              = {ReadRecord(files[name]).record : name \in InRange(files, call.from, call.to)}
        /\ Len(call.ret.records) = Cardinality(InRange(files, call.from, call.to))

\* C26 witness: of two stored records one lies strictly inside the range and
\* was returned, the other lies on a bound and was not.
C26_Witness ==
    /\ call.op = "ListRecords"
    /\ Len(call.ret.records) = 1
    /\ \E record \in Records(files) :
          /\ record.Timestamp \in {call.from, call.to}
          /\ record # call.ret.records[1]

\* The directory without its damaged files.
WithoutDamaged(dir) == [name \in DOMAIN dir \ Damaged(dir) |-> dir[name]]

\* C27: a corrupt or unreadable file never makes ListRecords fail; the result
\* is the one the directory without that file gives, wherever the file falls
\* in the order of the scan.
C27_CorruptSkipped ==
    call.op = "ListRecords" =>
        /\ call.ret.err = "nil"
        /\ call.ret = ListRecords(WithoutDamaged(files), call.from, call.to)

\* C27 witness: the first file of the scan was damaged and the record of a
\* later file was returned.
C27_Witness ==
    /\ call.op = "ListRecords"
    /\ Len(call.ret.records) = 1
    /\ Cardinality(DOMAIN files) = 2
    /\ Glob(files, << ".json" >>)[1] \in Damaged(files)

\* The files of the directory before the sweep whose modification time is
\* earlier than now minus RetentionDays.
Old == {name \in DOMAIN call.before :
           call.before[name].ModTime < call.now - VaultConfig.RetentionDays * TicksPerDay}

\* The sweep left the file as it was.
Retained(name) == name \in DOMAIN files /\ files[name] = call.before[name]

\* C28 as stated: CleanupOldRecords removes every record whose file
\* modification time is earlier than now minus RetentionDays and retains every
\* record modified at or after that cutoff, whatever the Timestamp inside.
C28_CleanupByModTime ==
    call.op = "CleanupOldRecords" =>
        \A name \in DOMAIN call.before :
            IF name \in Old THEN name \notin DOMAIN files ELSE Retained(name)

\* C28, amended: CleanupOldRecords removes every record whose file
\* modification time is earlier than now minus RetentionDays and whose file
\* os.Remove can delete, and retains every other record, whatever the
\* Timestamp inside.
C28_CleanupByModTimeRemovable ==
    call.op = "CleanupOldRecords" =>
        \A name \in DOMAIN call.before :
            IF name \in Old /\ name \notin call.failing THEN name \notin DOMAIN files
                                                         ELSE Retained(name)

\* C28 witness: the sweep removed a file older than the cutoff whose record
\* carries a Timestamp after the cutoff, and retained a file modified at the
\* cutoff exactly.
C28_Witness ==
    /\ call.op = "CleanupOldRecords"
    /\ \E name \in DOMAIN call.before \ DOMAIN files :
          ReadRecord(call.before[name]).record.Timestamp > Cutoff(call.now)
    /\ \E name \in DOMAIN files : files[name].ModTime = Cutoff(call.now)

\* C29: a failure to delete one expired record does not end the sweep: every
\* other expired record is deleted, and the sweep returns to its caller a
\* count equal to the number of records removed.
C29_SweepReportsCount ==
    (call.op = "CleanupOldRecords" /\ call.failing # {}) =>
        /\ \A name \in Old \ call.failing : name \notin DOMAIN files
        /\ "deleted" \in DOMAIN call.ret
        /\ call.ret.deleted = Cardinality(DOMAIN call.before \ DOMAIN files)

\* C30: any two accepted StoreRecord calls write to distinct file names: an
\* accepted call writes a name the directory did not hold and leaves every
\* stored file as it was.
C30_DistinctFileNames ==
    (call.op = "StoreRecord" /\ call.ret.err = "nil") =>
        /\ FileName(call.stored) \notin DOMAIN call.before
        /\ \A name \in DOMAIN call.before : Retained(name)

\* The callers inside the read section of GetRecord or ListRecords.
Reading == {p \in {"get", "list"} : vpc[p].pc \in {"glob", "read"}}

\* The files whose write is under way.
Partial == {name \in DOMAIN files : files[name].data = Truncated}

Occurring(path) == {pattern \in sensitivePatterns : IsSubstring(pattern, path)}

\* C32: isSensitiveFile(path) is true exactly when one of the fixed patterns
\* occurs in path at some position, and Extract lists the event's fd.name in
\* SensitiveFiles exactly in that case.
C32_SensitiveIffSubstring ==
    /\ call.op = "isSensitiveFile" => (call.ret <=> Occurring(call.path) # {})
    /\ call.op = "Extract" =>
          call.features.SensitiveFiles =
              IF isSensitiveFile(call.path) THEN << call.path >> ELSE << >>
    /\ call.op = "Extract" =>
          (call.features.SensitiveFiles # << >> <=> Occurring(call.path) # {})

\* C32 witness: Extract has listed a path that holds a pattern in its middle,
\* neither at its start nor at its end.
C32_Witness ==
    /\ call.op = "Extract"
    /\ call.features.SensitiveFiles = << call.path >>
    /\ \A pattern \in Occurring(call.path) :
          /\ SubSeq(call.path, 1, Len(pattern)) # pattern
          /\ SubSeq(call.path, Len(call.path) - Len(pattern) + 1, Len(call.path)) # pattern

\* The events enqueued so far.
Enqueued == gOffered \ gDropped

\* The ingestion task has returned nil at end-of-input: the context is not
\* cancelled, so the return is not the one of the ctx.Done case.
EndOfInput == ipc = "exited" /\ iret = "nil" /\ ~cancelled

\* C33: the return at end-of-input leaves the queue open and as it is, and
\* from then on, unless cancellation is signalled, every enqueued event is
\* eventually dequeued and counted in TotalEvents.
C33_DrainedAfterEndOfInput ==
    /\ [][(ipc = "scan" /\ ipc' = "exited") =>
             (closed' = closed /\ ~closed /\ EventChan' = EventChan)]_vars
    /\ EndOfInput ~>
          (cancelled \/ (/\ \A id \in Enqueued : gDeq[id] >= 1 /\ gCounted[id] >= 1
                         /\ Metrics.TotalEvents >= Cardinality(Enqueued)))

\* C33 witness: end-of-input has come with an event waiting in the queue, no
\* cancellation, the queue open.
C33_Witness ==
    /\ EndOfInput
    /\ ~closed
    /\ EventChan # << >>
    /\ Metrics.TotalEvents < Cardinality(Enqueued)

\* The worker w has taken the receive case on a closed, empty queue.
ClosedExit(w) == wev[w] = ReceiveClosed.event

\* C34: a worker that receives from a closed, empty queue exits and changes
\* no counter, no table and no stored record; it holds no event.
C34_SilentExitOnClosedQueue ==
    /\ [][\A w \in WorkerIds :
             (wpc[w] = "select" /\ closed /\ EventChan = << >> /\ wpc'[w] # "select") =>
                 /\ wpc'[w] = "exited"
                 /\ Metrics' = Metrics
                 /\ processFrequency' = processFrequency
                 /\ gCounted' = gCounted
                 /\ gStore' = gStore]_vars
    /\ [][\A w \in WorkerIds : ClosedExit(w) => wpc'[w] = "exited" /\ wev'[w] = wev[w]]_vars

\* C34 witness: a worker has left through the receive case of a closed, empty
\* queue after events were counted.
C34_Witness ==
    /\ \E w \in WorkerIds : ClosedExit(w) /\ wpc[w] = "exited"
    /\ Metrics.TotalEvents >= 1

\* The table after one Extract call on event, from the table before it.
TableAfter(table, event) ==
    IF HasString(event, "proc.name")
    THEN [p \in DOMAIN table |->
             IF p = event.Fields["proc.name"] THEN table[p] + 1 ELSE table[p]]
    ELSE table

\* C35: the actor-frequency table only grows; one Extract call adds exactly 1
\* to the count of the event's proc.name and changes no other count, an event
\* without a string proc.name leaves the table as it is, and so does a call
\* of getAIRiskScore alone.
C35_TableOnlyGrows ==
    [][/\ \A p \in SeqActors : processFrequency'[p] >= processFrequency[p]
       /\ call'.n = call.n + 1 =>
             processFrequency' = TableAfter(processFrequency, call'.last.event)
       /\ call'.n = call.n => processFrequency' = processFrequency]_vars

\* C35 witness: a call on an event of an actor, then a call on an event that
\* names no actor: the actor's count is 1 and every other count is 0.
C35_Witness ==
    /\ call.n = 2
    /\ HasString(call.prev.event, "proc.name")
    /\ ~HasString(call.last.event, "proc.name")
    /\ \A p \in SeqActors :
          processFrequency[p] = IF p = call.prev.event.Fields["proc.name"] THEN 1 ELSE 0

C37_NoHeuristicAnomaly ==
    call.n >= 1 =>
        /\ getAIRiskScore(call.last.processed.Features) <= 75
        /\ ~RuleTrigger(call.last.event) =>
              /\ ~call.last.processed.Anomaly
              /\ call.last.processed.RiskScore <= 75
              /\ call.last.anomalies = 0

\* C37 witness: an unmatched event with a suspicious process, a sensitive file
\* and a network field scored 0.70 and was not flagged.
C37_Witness ==
    /\ call.n >= 1
    /\ ~RuleTrigger(call.last.event)
    /\ String(call.last.event, "proc.name") \in suspiciousProcesses
    /\ call.last.processed.Features.SensitiveFiles # << >>
    /\ call.last.processed.Features.NetworkConnCount = 1
    /\ call.last.processed.RiskScore = 70
    /\ ~call.last.processed.Anomaly

\* The verdicts produced so far with Anomaly true: processEvent calls
\* storeForensicData for each of them and for no other.
AnomalousVerdicts == gStore.stored + gStore.failed

\* C38: AnomaliesDetected never exceeds TotalEvents and equals the number of
\* verdicts produced so far with Anomaly true.
C38_OneIncrementPerAnomaly ==
    /\ Metrics.AnomaliesDetected <= Metrics.TotalEvents
    /\ Metrics.AnomaliesDetected = AnomalousVerdicts

\* C38 witness: every event of the stream was counted and flagged, by workers
\* that have both gone back to their select.
C38_Witness ==
    /\ Metrics.TotalEvents = MaxLines
    /\ Metrics.AnomaliesDetected = MaxLines
    /\ Metrics.ProcessedEvents = MaxLines

\* GetMetrics has returned the value in snapshot.
Returned == mpc \in {"print", "wait", "exited"}

\* C39 (as claimed): every value returned by GetMetrics has
\* ProcessedEvents + ErrorCount <= TotalEvents.
C39_SnapshotConsistent ==
    Returned => snapshot.ProcessedEvents + snapshot.ErrorCount <= snapshot.TotalEvents

\* C40 (as claimed): a call of Stop after a completed Stop returns normally:
\* every step that a stopped Monitor's controller takes leaves it stopped,
\* without a fault, the queue closed as it was.
C40_SecondStopReturns ==
    [][cpc = "stopped" => (cpc' = "stopped" /\ closed' = closed)]_vars

====
